---------------------------- MODULE Spec2Model ----------------------------
(***************************************************************************)
(* Scene synchronisation and composition: composer.py (compose_final,      *)
(* pad_audio_to_duration, safe_text_clip), narrator.py (tts_gtts) and      *)
(* vibecoded/agents/video_composer.py (VideoComposer.compose).             *)
(*                                                                         *)
(* Time is counted in whole ticks (one tick = one second).  An audio clip  *)
(* is what MoviePy makes of it: a start, an end, a duration and a          *)
(* make_frame function of time; the duration attribute and the frame       *)
(* function are independent, exactly as in the library.                    *)
(***************************************************************************)
EXTENDS Integers, Sequences, FiniteSets, TLC

\* ------------------------------------------------------------- bounds
MaxScenes == 2          \* longest list of clips / audios / scenes
MaxDur == 2             \* longest clip or audio file, in ticks
MaxAmp == 2             \* largest sample value of an audio file

\* ---------------------------------------------------- program constants
DefaultMs == 8000       \* tts_gtts: duration = target_duration_ms or 8000
IntroDur == 3           \* VideoComposer._create_intro: 3 second intro
OutroDur == 3           \* VideoComposer._create_outro: 3 second outro
Silent == 0             \* AudioClip(lambda t: 0, ...): the zero sample
NoData == -1            \* what a read past the end of an audio file yields

\* ------------------------------------------------------------ state
\* compose_final (composer.py)
VARIABLES
    cf_pc,          \* where compose_final is
    clips,          \* argument: the clip paths
    audios,         \* argument: the audio paths
    scenes,         \* argument: the scene records
    font_ok,        \* environment: whether TextClip can render with DEFAULT_FONT
    clip_file,      \* file system: clip path -> duration, as found on opening
    audio_file,     \* file system: audio path -> samples, as found on opening
    opened,         \* the files opened so far
    cf_i,           \* the index of the scene in hand (either loop)
    video,          \* local: video
    audio,          \* local: audio
    composed,       \* local: composed
    final,          \* local: final
    padded_audios,  \* local: padded_audios
    final_audio,    \* local: final_audio
    outfile,        \* file system: None, or what is at the output path
    cf_err          \* the exception compose_final ended with, or "none"

cfVars == <<cf_pc, clips, audios, scenes, font_ok, clip_file, audio_file, opened, cf_i,
            video, audio, composed, final, padded_audios, final_audio,
            outfile, cf_err>>

\* The aligner harness: one call of pad_audio_to_duration or of tts_gtts.
VARIABLES h_pc, h_op, h_audio, h_target, h_target_ms, h_text, h_clip, h_file,
          h_video, h_err

hVars == <<h_pc, h_op, h_audio, h_target, h_target_ms, h_text, h_clip, h_file,
          h_video, h_err>>

\* VideoComposer.compose (vibecoded/agents/video_composer.py)
VARIABLES
    vc_pc,          \* where compose is
    script,         \* argument: script['scenes'], the scene records
    visual_assets,  \* argument: the scene numbers that have a visual asset
    narration,      \* file system: None, or the duration of the file at audio_path
    scene_file,     \* temp_dir: scene number -> duration of scene_NN.mp4, 0 if absent
    intro_file,     \* temp_dir: duration of intro.mp4, 0 if absent
    outro_file,     \* temp_dir: duration of outro.mp4, 0 if absent
    concat_file,    \* temp_dir: duration of concatenated.mp4, 0 if absent
    scene_videos,   \* local: scene_videos, the paths (scene numbers) collected
    vc_i,           \* the index of the scene in hand
    vc_out,         \* file system: None, or the file at output_path
    vc_ret,         \* what compose returned: None, or Some("output_path")
    vc_err          \* the exception compose ended with, or "none"

vcVars == <<vc_pc, script, visual_assets, narration, scene_file, intro_file,
            outro_file, concat_file, scene_videos, vc_i, vc_out, vc_ret, vc_err>>

\* A second call of compose_final with the arguments of the first.
VARIABLES
    cf_run,         \* which call of compose_final this is: 1 or 2
    first_out       \* None, or what the first call left at the output path

rrVars == <<cf_run, first_out>>

\* run (run_pipeline.py)
VARIABLES
    r_pc,           \* where run is
    extracted,      \* what extract_text_sentences returned: the sentences' pages
    n_scenes,       \* argument: n_scenes
    r_i,            \* extractive_scene_maker: the loop variable i
    r_scenes,       \* local: scenes
    images,         \* local: images
    r_clips,        \* local: clips
    r_audios,       \* local: audios
    handed,         \* None, or the arguments compose_final was called with
    r_err           \* the exception run ended with, or "none"

rnVars == <<r_pc, extracted, n_scenes, r_i, r_scenes, images, r_clips, r_audios,
            handed, r_err>>

\* One call of a function of the vibecoded package: ContentExtractor.extract,
\* PDFtoShortsConverter._sanitize_content, utils.truncate_text,
\* ScriptWriter._parse_script.
VARIABLES
    u_pc,           \* "idle", "call" or "done"
    u_op,           \* which function is called
    u_in,           \* its arguments
    u_out           \* what it returned or raised

uVars == <<u_pc, u_op, u_in, u_out>>

\* utils.SimpleCache on one cache directory
VARIABLES
    c_files,        \* cache_dir: file name -> None, or the text of the file
    c_expect,       \* key -> the value of the last set since the last clear, or None
    c_got           \* None, or the key and the result when the last call was a get

cVars == <<c_files, c_expect, c_got>>

\* Narrator.generate_audio (vibecoded/agents/narrator.py)
VARIABLES
    n_pc,           \* where generate_audio is
    n_script,       \* the argument script
    n_files,        \* output_dir: what is at narration.mp3 and narration_adjusted.mp3
    n_tts_failed,   \* whether gTTS raised in this call
    n_ret,          \* None, or the path returned
    n_err           \* the exception generate_audio ended with, or "none"

nVars == <<n_pc, n_script, n_files, n_tts_failed, n_ret, n_err>>

\* ScriptWriter.generate_script (vibecoded/agents/script_writer.py)
VARIABLES
    sw_pc,          \* where generate_script is
    sw_attempt,     \* the loop variable attempt
    sw_log,         \* the outcome of every call of the model so far
    sw_ret,         \* None, or the script returned
    sw_err          \* the exception generate_script ended with, or "none"

swVars == <<sw_pc, sw_attempt, sw_log, sw_ret, sw_err>>

\* The /generate_video handler (apiapp.py)
VARIABLES
    a_pc,           \* where the handler is
    a_polls,        \* how many status polls were made
    a_seen,         \* the statuses the polls answered with 200 reported
    a_video_url,    \* local: video_url
    a_answer        \* None, or the response of the handler

apVars == <<a_pc, a_polls, a_seen, a_video_url, a_answer>>

toolVars == <<uVars, cVars, nVars, swVars, apVars>>

vars == <<cfVars, hVars, vcVars, rrVars, rnVars, toolVars>>

\* What an action of one component leaves alone.
notCf == <<hVars, vcVars, rrVars, rnVars, toolVars>>
notH == <<cfVars, vcVars, rrVars, rnVars, toolVars>>
notVc == <<cfVars, hVars, rrVars, rnVars, toolVars>>
notRn == <<cfVars, hVars, vcVars, rrVars, toolVars>>
mediaVars == <<cfVars, hVars, vcVars, rrVars, rnVars>>
notU == <<mediaVars, cVars, nVars, swVars, apVars>>
notC == <<mediaVars, uVars, nVars, swVars, apVars>>
notN == <<mediaVars, uVars, cVars, swVars, apVars>>
notSw == <<mediaVars, uVars, cVars, nVars, apVars>>
notAp == <<mediaVars, uVars, cVars, nVars, swVars>>

Max(S) == CHOOSE x \in S : \A y \in S : y <= x
Min(S) == CHOOSE x \in S : \A y \in S : x <= y

\* The time horizon over which a make_frame function is tabulated: long
\* enough for the default narration and for one scene more than the
\* longest timeline.
Horizon == Max({DefaultMs \div 1000, (MaxScenes + 1) * MaxDur})
Times == 0..(Horizon - 1)

RECURSIVE SumSeq(_)
SumSeq(s) == IF s = <<>> THEN 0 ELSE Head(s) + SumSeq(Tail(s))

\* np.cumsum([0] + durations): tt[i] is the start of the i-th clip,
\* tt[Len+1] the total.
cumsum(durs) == [i \in 1..(Len(durs) + 1) |-> SumSeq(SubSeq(durs, 1, i - 1))]

\* ------------------------------------------------------ MoviePy clips
\* AudioFileClip(path): the file's samples on [0, n), nothing after.
AudioFileClip(samples) ==
    [start |-> 0, end |-> Len(samples), duration |-> Len(samples),
     frame |-> [t \in Times |-> IF t < Len(samples) THEN samples[t + 1] ELSE NoData]]

\* AudioClip(lambda t: 0, duration=d)
AudioClip(d) ==
    [start |-> 0, end |-> d, duration |-> d, frame |-> [t \in Times |-> Silent]]

\* Clip.set_duration(t): only the attributes change, never the frames.
set_duration(clip, d) == [clip EXCEPT !.duration = d, !.end = clip.start + d]

\* Clip.set_start(t), change_end=True
set_start(clip, t) == [clip EXCEPT !.start = t, !.end = t + clip.duration]

\* Clip.is_playing(t) for a time t: start <= t < end
is_playing(clip, t) == t >= clip.start /\ t < clip.end

\* Clip.subclip(t_start, t_end): a time shift by t_start and a new duration;
\* a negative bound counts from the end of the clip.
subclip(clip, t_start, t_end) ==
    LET ts == IF t_start < 0 THEN clip.duration + t_start ELSE t_start
        te == IF t_end < 0 THEN clip.duration + t_end ELSE t_end
        shifted == [t \in Times |-> IF t + ts \in Times THEN clip.frame[t + ts] ELSE NoData]
    IN  [clip EXCEPT !.frame = shifted, !.duration = te - ts,
                     !.end = clip.start + (te - ts)]

\* CompositeAudioClip(clips).make_frame: the sum of the clips playing at t,
\* each read at its own time t - start; zero when none plays.
RECURSIVE MixAt(_, _)
MixAt(cs, t) ==
    IF cs = <<>> THEN 0
    ELSE LET c == Head(cs)
         IN  (IF is_playing(c, t) THEN c.frame[t - c.start] ELSE 0) + MixAt(Tail(cs), t)

\* CompositeAudioClip(clips): ends at the latest end of its clips.
CompositeAudioClip(cs) ==
    LET last == Max({cs[i].end : i \in DOMAIN cs})
    IN  [start |-> 0, end |-> last, duration |-> last,
         frame |-> [t \in Times |-> MixAt(cs, t)]]

\* concatenate_audioclips(clips): each clip starts where the previous ends.
concatenate_audioclips(cs) ==
    LET tt == cumsum([i \in DOMAIN cs |-> cs[i].duration])
    IN  set_duration(
            CompositeAudioClip([i \in DOMAIN cs |-> set_start(cs[i], tt[i])]),
            tt[Len(cs) + 1])

\* What writing (or playing) a clip yields: its frames on [0, duration).
Render(clip) == [t \in 1..clip.duration |-> clip.frame[t - 1]]

\* ------------------------------------------------- composer.py aligner
\* A broken aligner: pads with a full target of silence, keeps a long
\* audio as it is, and does not force the duration at the end.
pad_audio_no_fit(aclip, duration) ==
    IF aclip.duration < duration
    THEN concatenate_audioclips(<<aclip, AudioClip(duration)>>)
    ELSE aclip

\* A broken aligner: the silence is put before the audio.
pad_audio_silence_first(aclip, duration) ==
    LET new_audio ==
            IF aclip.duration < duration
            THEN concatenate_audioclips(<<AudioClip(duration - aclip.duration), aclip>>)
            ELSE IF aclip.duration > duration
                 THEN subclip(aclip, 0, duration)
                 ELSE aclip
    IN  set_duration(new_audio, duration)

\* A broken aligner: a long audio keeps its last seconds, not its first.
pad_audio_keep_tail(aclip, duration) ==
    LET new_audio ==
            IF aclip.duration < duration
            THEN concatenate_audioclips(<<aclip, AudioClip(duration - aclip.duration)>>)
            ELSE IF aclip.duration > duration
                 THEN subclip(aclip, aclip.duration - duration, aclip.duration)
                 ELSE aclip
    IN  set_duration(new_audio, duration)

pad_audio_to_duration(aclip, duration) ==
    LET new_audio ==
            IF aclip.duration < duration
            THEN concatenate_audioclips(<<aclip, AudioClip(duration - aclip.duration)>>)
            ELSE IF aclip.duration > duration
                 THEN subclip(aclip, 0, duration)
                 ELSE aclip
    IN  set_duration(new_audio, duration)

\* --------------------------------------------------- narrator.py tts_gtts
\* Python's None and a present value.
None == {}
Some(v) == {v}
TheVal(opt) == CHOOSE v \in opt : TRUE

\* Python truthiness of an optional integer: None and 0 are false.
Truthy(opt) == opt # None /\ TheVal(opt) # 0

\* x or default
OrElse(opt, default) == IF Truthy(opt) THEN TheVal(opt) ELSE default

Letters == {"a"}
Chars == {" ", "1"} \cup Letters

RECURSIVE lstrip(_)
lstrip(s) == IF s # <<>> /\ Head(s) = " " THEN lstrip(Tail(s)) ELSE s

RECURSIVE rstrip(_)
rstrip(s) == IF s # <<>> /\ s[Len(s)] = " " THEN rstrip(SubSeq(s, 1, Len(s) - 1)) ELSE s

strip(s) == rstrip(lstrip(s))

\* re.search(r'[A-Za-z]', text)
is_speakable(text) == \E i \in DOMAIN text : text[i] \in Letters

\* A narrator that never fits the speech to the target: it keeps the
\* raw file (the rename branch) whatever target_duration_ms is.
tts_gtts_no_fit(text, speech, target_duration_ms) ==
    LET txt == strip(IF text = None THEN <<>> ELSE TheVal(text))
    IN  IF ~is_speakable(txt)
        THEN Some(Render(AudioClip(OrElse(target_duration_ms, DefaultMs) \div 1000)))
        ELSE Some(speech)

\* tts_gtts(text, out_path, target_duration_ms): the samples of the file
\* at out_path afterwards.  speech is what gTTS saves for the text.
tts_gtts(text, speech, target_duration_ms) ==
    LET txt == strip(IF text = None THEN <<>> ELSE TheVal(text))
    IN  IF ~is_speakable(txt)
        THEN LET duration == OrElse(target_duration_ms, DefaultMs)
             IN  Some(Render(AudioClip(duration \div 1000)))
        ELSE IF txt = <<>>
        THEN LET duration == OrElse(target_duration_ms, DefaultMs)
             IN  Some(Render(AudioClip(duration \div 1000)))
        ELSE IF Truthy(target_duration_ms)
        THEN LET fit == set_duration(AudioFileClip(speech),
                                     TheVal(target_duration_ms) \div 1000)
             IN  Some(Render(fit))
        ELSE Some(speech)

\* ------------------------------- vibecoded/agents/narrator.py Narrator
\* generate_scene_audios, one turn of its loop: the entry of audio_files
\* for the scene afterwards, None when there is none.  text is
\* scene.get('narration', ''); speech is what gTTS saves for it, and
\* gtts_ok whether gTTS saves at all (any exception is caught and the
\* scene is left without entry).
generate_scene_audio(text, speech, gtts_ok) ==
    IF text = None \/ TheVal(text) = <<>> THEN None
    ELSE IF gtts_ok THEN Some(speech)
    ELSE None

\* ------------------------------------------------------- input domains
RECURSIVE SeqsUpTo(_, _)
SeqsUpTo(S, n) ==
    IF n = 0 THEN {<<>>}
    ELSE LET shorter == SeqsUpTo(S, n - 1)
         IN  shorter \cup {Append(s, x) : s \in {q \in shorter : Len(q) = n - 1}, x \in S}

MaxText == 2            \* longest narration text, in characters

Amps == 0..MaxAmp
AudioFiles == SeqsUpTo(Amps, MaxDur)
Texts == {None} \cup {Some(s) : s \in SeqsUpTo(Chars, MaxText)}
TargetsMs == {None} \cup {Some(1000 * k) : k \in 0..MaxDur}

\* --------------------------------------------------- MoviePy video clips
\* A video clip: its timing, its audio track (None or Some(audio clip)) and
\* its layers: the clip files shown, each with its place on the timeline,
\* and whether a text layer is composited over it.
NoVideo == [start |-> 0, end |-> 0, duration |-> 0, audio |-> None, layers |-> <<>>]

\* VideoFileClip(path) of a file of duration d: the clip files written by
\* animator.ken_burns_clip carry no audio track.
VideoFileClip(path, d) ==
    [start |-> 0, end |-> d, duration |-> d, audio |-> None,
     layers |-> <<[src |-> path, start |-> 0, end |-> d, text |-> FALSE]>>]

\* VideoClip.set_audio(audio): the timing of the video is left alone.
set_audio(vclip, aclip) == [vclip EXCEPT !.audio = Some(aclip)]

\* A set_audio that takes the duration of the audio it attaches.
set_audio_restretch(vclip, aclip) ==
    [vclip EXCEPT !.audio = Some(aclip), !.duration = aclip.duration,
                  !.end = vclip.start + aclip.duration]

\* TextClip(...).set_duration(duration).set_position(position)
TextClip(duration) == [start |-> 0, end |-> duration, duration |-> duration]

\* A safe_text_clip that forgets to strip: only None and "" give no clip.
safe_text_clip_no_strip(text, duration, render_ok) ==
    LET txt == IF text = None THEN <<>> ELSE TheVal(text)
    IN  IF txt = <<>> THEN None
        ELSE IF render_ok THEN Some(TextClip(duration))
        ELSE None

\* safe_text_clip(text, duration): None for a text that strips to nothing
\* or that cannot be rendered (render_ok is the outcome of TextClip(...)).
safe_text_clip(text, duration, render_ok) ==
    LET txt == strip(IF text = None THEN <<>> ELSE TheVal(text))
    IN  IF txt = <<>> THEN None
        ELSE IF render_ok THEN Some(TextClip(duration))
        ELSE None

\* The text put after the video instead of over it.
CompositeVideoClipAfter(vclip, txt) ==
    [vclip EXCEPT !.end = vclip.end + txt.duration,
                  !.duration = vclip.duration + txt.duration]

\* CompositeVideoClip([video, txt]): as long as its longest layer, with
\* the audio of the layers that have one.
CompositeVideoClip(vclip, txt) ==
    LET last == Max({vclip.end, txt.end})
    IN  [start |-> 0, end |-> last, duration |-> last,
         audio |-> IF vclip.audio = None THEN None
                   ELSE Some(CompositeAudioClip(<<TheVal(vclip.audio)>>)),
         layers |-> [k \in DOMAIN vclip.layers |-> [vclip.layers[k] EXCEPT !.text = TRUE]]]

\* txt = safe_text_clip(footer_text, duration=video.duration);
\* if txt: video = CompositeVideoClip([video, txt])
add_footer(vclip, text, render_ok) ==
    LET txt == safe_text_clip(text, vclip.duration, render_ok)
    IN  IF txt # None THEN CompositeVideoClip(vclip, TheVal(txt)) ELSE vclip

\* A concatenation that leaves every clip at time 0.
concatenate_videoclips_no_start(cs) ==
    LET last == Max({cs[i].end : i \in DOMAIN cs})
    IN  [start |-> 0, end |-> last, duration |-> last,
         audio |-> Some(CompositeAudioClip([i \in DOMAIN cs |-> TheVal(cs[i].audio)])),
         layers |-> [i \in DOMAIN cs |-> cs[i].layers[1]]]

\* concatenate_videoclips(clips, method="compose") of a non-empty list:
\* clip i starts at tt[i]; the audio is the composite of the clips' audios.
concatenate_videoclips(cs) ==
    LET tt == cumsum([i \in DOMAIN cs |-> cs[i].duration])
        withAudio == SelectSeq([i \in DOMAIN cs |->
                                   [a |-> cs[i].audio, t |-> tt[i]]],
                               LAMBDA x : x.a # None)
    IN  [start |-> 0, end |-> tt[Len(cs) + 1], duration |-> tt[Len(cs) + 1],
         audio |-> IF withAudio = <<>> THEN None
                   ELSE Some(CompositeAudioClip(
                            [k \in DOMAIN withAudio |->
                                set_start(TheVal(withAudio[k].a), withAudio[k].t)])),
         layers |-> [i \in DOMAIN cs |->
                        [cs[i].layers[1] EXCEPT !.start = tt[i],
                                                   !.end = tt[i] + cs[i].duration]]]

\* ----------------------------------------------------- aligner harness
\* One call on inputs drawn from the domains above:
\*   "pad"         pad_audio_to_duration(AudioFileClip(h_audio), h_target)
\*   "tts"         tts_gtts(h_text, out, h_target_ms), gTTS saving h_audio
\*   "scene_audio" one turn of Narrator.generate_scene_audios for a scene
\*                 of narration h_text and duration h_target, gTTS saving
\*                 h_audio
\*   "overlay"     the body of compose_final's first loop for a clip of
\*                 h_target ticks, the audio file h_audio and the footer
\*                 text h_text
NoClip == [start |-> 0, end |-> 0, duration |-> 0, frame |-> [t \in Times |-> Silent]]

HInit ==
    /\ h_pc = "call"
    /\ h_err = "none"
    /\ h_clip = NoClip
    /\ h_file = None
    /\ h_video = NoVideo
    /\ \/ /\ h_op = "pad"
          /\ h_audio \in AudioFiles
          /\ h_target \in (-MaxDur)..MaxDur
          /\ h_target_ms = None
          /\ h_text = None
       \/ /\ h_op = "tts"
          /\ h_audio \in (AudioFiles \ {<<>>})
          /\ h_target = 0
          /\ h_target_ms \in TargetsMs
          /\ h_text \in Texts
       \/ /\ h_op = "scene_audio"
          /\ h_audio \in (AudioFiles \ {<<>>})
          /\ h_target \in 1..MaxDur
          /\ h_target_ms = None
          /\ h_text \in Texts
       \/ /\ h_op = "overlay"
          /\ h_audio \in AudioFiles
          /\ h_target \in 1..MaxDur
          /\ h_target_ms = None
          /\ h_text \in Texts

HIdle ==
    /\ h_pc = "idle"
    /\ h_err = "none"
    /\ h_op = "none"
    /\ h_audio = <<>>
    /\ h_target = 0
    /\ h_target_ms = None
    /\ h_text = None
    /\ h_clip = NoClip
    /\ h_file = None
    /\ h_video = NoVideo

ApplyPad ==
    /\ UNCHANGED notH
    /\ h_pc = "call"
    /\ h_op = "pad"
    /\ h_clip' = pad_audio_to_duration(AudioFileClip(h_audio), h_target)
    /\ h_pc' = "done"
    /\ h_err' = "none"   \* nothing in pad_audio_to_duration raises
    /\ UNCHANGED <<h_op, h_audio, h_target, h_target_ms, h_text, h_file, h_video>>

ApplyTts ==
    /\ UNCHANGED notH
    /\ h_pc = "call"
    /\ h_op = "tts"
    /\ h_file' = tts_gtts(h_text, h_audio, h_target_ms)
    /\ h_pc' = "done"
    /\ h_err' = "none"   \* no target makes tts_gtts raise
    /\ UNCHANGED <<h_op, h_audio, h_target, h_target_ms, h_text, h_clip, h_video>>

ApplySceneAudio ==
    /\ UNCHANGED notH
    /\ h_pc = "call"
    /\ h_op = "scene_audio"
    /\ \E gtts_ok \in BOOLEAN :
          h_file' = generate_scene_audio(h_text, h_audio, gtts_ok)
    /\ h_pc' = "done"
    /\ h_err' = "none"   \* except Exception: nothing leaves the loop
    /\ UNCHANGED <<h_op, h_audio, h_target, h_target_ms, h_text, h_clip, h_video>>

\* video = VideoFileClip(clip_path); audio = AudioFileClip(audio_path);
\* audio = pad_audio_to_duration(audio, video.duration);
\* video = video.set_audio(audio); the footer.
ApplyOverlay ==
    /\ UNCHANGED notH
    /\ h_pc = "call"
    /\ h_op = "overlay"
    /\ \E render_ok \in BOOLEAN :
          LET opened_video == VideoFileClip(1, h_target)
              aligned == pad_audio_to_duration(AudioFileClip(h_audio),
                                               opened_video.duration)
          IN  /\ h_clip' = aligned
              /\ h_video' = add_footer(set_audio(opened_video, aligned), h_text,
                                       render_ok)
    /\ h_pc' = "done"
    /\ h_err' = "none"   \* safe_text_clip catches what TextClip raises
    /\ UNCHANGED <<h_op, h_audio, h_target, h_target_ms, h_text, h_file>>

HNext == ApplyPad \/ ApplyTts \/ ApplySceneAudio \/ ApplyOverlay

\* ------------------------------------------------ composer.compose_final
\* The footer text of a scene record: f"Source page: {src_page}" or "".
footer_text(scene) ==
    IF Truthy(scene.source_page) THEN Some(<<"a", " ", "1">>) ELSE Some(<<>>)

\* The samples of the audio file at path p when its length is n.
AudioContent(p, n) == [t \in 1..n |-> 10 * p + t]

\* Scene records: scene numbers 1..n in ascending or in descending order
\* (compose_final never reads them), each with or without a source page.
SceneOrders(n) == {[i \in 1..n |-> i], [i \in 1..n |-> n + 1 - i]}
SceneLists(n) ==
    {[i \in 1..n |-> [scene |-> f[i], source_page |-> pg[i]]] :
        f \in SceneOrders(n), pg \in [1..n -> {None, Some(1)}]}

CfLocalsInit ==
    /\ opened = {}
    /\ cf_i = 0
    /\ video = NoVideo
    /\ audio = NoClip
    /\ composed = <<>>
    /\ final = NoVideo
    /\ padded_audios = <<>>
    /\ final_audio = NoClip
    /\ outfile = None
    /\ cf_err = "none"

CfInit ==
    /\ cf_pc = "assert"
    /\ \E nc \in 0..MaxScenes, na \in 0..MaxScenes, ns \in 0..MaxScenes :
          /\ clips = [i \in 1..nc |-> i]
          /\ audios = [i \in 1..na |-> i]
          /\ scenes \in SceneLists(ns)
    /\ font_ok \in BOOLEAN
    /\ clip_file = <<>>
    /\ audio_file = <<>>
    /\ CfLocalsInit

CfIdle ==
    /\ cf_pc = "idle"
    /\ clips = <<>>
    /\ audios = <<>>
    /\ scenes = <<>>
    /\ font_ok = TRUE
    /\ clip_file = <<>>
    /\ audio_file = <<>>
    /\ CfLocalsInit

\* A loop that is left after its first turn.
ZipLenFirstOnly == Min({1, Len(clips), Len(audios), Len(scenes)})

\* zip(clips, audios, scenes) stops at the shortest of the three.
ZipLen == Min({Len(clips), Len(audios), Len(scenes)})

\* An assert that compares only the clips with the audios.
LengthsAgreeClipsAudios == Len(clips) = Len(audios)

\* assert len(clips) == len(audios) == len(scenes)
LengthsAgree == Len(clips) = Len(audios) /\ Len(audios) = Len(scenes)

CheckLengths ==
    /\ UNCHANGED notCf
    /\ cf_pc = "assert"
    /\ IF LengthsAgree
       THEN /\ cf_pc' = IF ZipLen = 0 THEN "concat" ELSE "align"
            /\ cf_i' = 1
            /\ cf_err' = cf_err
       ELSE /\ cf_pc' = "raised"
            /\ cf_err' = "AssertionError"
            /\ cf_i' = cf_i
    /\ UNCHANGED <<clips, audios, scenes, font_ok, clip_file, audio_file, opened,
                   video, audio, composed, final, padded_audios, final_audio,
                   outfile>>

\* video = VideoFileClip(clip_path); audio = AudioFileClip(audio_path);
\* audio = pad_audio_to_duration(audio, video.duration).  Opening the
\* files is where their durations are learnt: any clip of 1..MaxDur ticks
\* and any audio of 0..MaxDur ticks may be found there; a file opened
\* before is found as it was.
AlignScene ==
    /\ UNCHANGED notCf
    /\ cf_pc = "align"
    /\ \E d \in 1..MaxDur, n \in 0..MaxDur :
          /\ clips[cf_i] \in DOMAIN clip_file =>
                 /\ d = clip_file[clips[cf_i]]
                 /\ n = Len(audio_file[audios[cf_i]])
          /\ clip_file' = IF clips[cf_i] \in DOMAIN clip_file THEN clip_file
                          ELSE Append(clip_file, d)
          /\ audio_file' = IF audios[cf_i] \in DOMAIN audio_file THEN audio_file
                           ELSE Append(audio_file, AudioContent(audios[cf_i], n))
          /\ video' = VideoFileClip(clips[cf_i], d)
          /\ audio' = pad_audio_to_duration(
                          AudioFileClip(AudioContent(audios[cf_i], n)), d)
    /\ opened' = opened \cup {<<"clip", clips[cf_i]>>, <<"audio", audios[cf_i]>>}
    /\ cf_pc' = "mux"
    /\ UNCHANGED <<clips, audios, scenes, font_ok, cf_i,
                   composed, final, padded_audios, final_audio, outfile, cf_err>>

\* video = video.set_audio(audio); the footer; composed.append(video)
MuxScene ==
    /\ UNCHANGED notCf
    /\ cf_pc = "mux"
    /\ LET muxed == set_audio(video, audio)
           scene_clip == add_footer(muxed, footer_text(scenes[cf_i]), font_ok)
       IN  /\ video' = scene_clip
           /\ composed' = Append(composed, scene_clip)
    /\ IF cf_i < ZipLen
       THEN cf_i' = cf_i + 1 /\ cf_pc' = "align"
       ELSE cf_i' = cf_i /\ cf_pc' = "concat"
    /\ UNCHANGED <<clips, audios, scenes, font_ok, clip_file, audio_file, opened,
                   audio, final, padded_audios, final_audio, outfile, cf_err>>

\* final = concatenate_videoclips(composed, method="compose"); an empty
\* list makes it raise ValueError (max() of an empty sequence).
Concatenate ==
    /\ UNCHANGED notCf
    /\ cf_pc = "concat"
    /\ IF composed = <<>>
       THEN /\ cf_pc' = "raised"
            /\ cf_err' = "ValueError"
            /\ UNCHANGED final
       ELSE /\ final' = concatenate_videoclips(composed)
            /\ cf_pc' = "rebuild"
            /\ cf_err' = cf_err
    /\ UNCHANGED <<clips, audios, scenes, font_ok, clip_file, audio_file, opened,
                   cf_i, video, audio, composed, padded_audios, final_audio,
                   outfile>>

\* A second loop that forgets to pad: the audios as they are on disk.
RawAudios == [k \in 1..ZipLen |-> AudioFileClip(audio_file[audios[k]])]

\* The second loop: every scene's files are opened again and its audio is
\* padded again to the duration of its clip.
RepaddedAudios ==
    [k \in 1..ZipLen |->
        pad_audio_to_duration(AudioFileClip(audio_file[audios[k]]),
                              VideoFileClip(clips[k], clip_file[clips[k]]).duration)]

\* padded_audios of the second loop; final_audio =
\* concatenate_audioclips(padded_audios); final_audio =
\* pad_audio_to_duration(final_audio, final.duration);
\* final = final.set_audio(final_audio)
RebuildAudio ==
    /\ UNCHANGED notCf
    /\ cf_pc = "rebuild"
    /\ LET repadded == RepaddedAudios
           joined == concatenate_audioclips(repadded)
           fitted == pad_audio_to_duration(joined, final.duration)
       IN  /\ padded_audios' = repadded
           /\ video' = VideoFileClip(clips[ZipLen], clip_file[clips[ZipLen]])
           /\ audio' = repadded[ZipLen]
           /\ final_audio' = fitted
           /\ final' = set_audio(final, fitted)
    /\ cf_pc' = "write"
    /\ UNCHANGED <<clips, audios, scenes, font_ok, clip_file, audio_file, opened,
                   cf_i, composed, outfile, cf_err>>

\* What final.write_videofile(out) leaves at the output path: the video
\* for final.duration, the layers in timeline order, the whole audio track.
WrittenFile(clip) ==
    [duration |-> clip.duration,
     layers |-> clip.layers,
     audio |-> IF clip.audio = None THEN <<>> ELSE Render(TheVal(clip.audio))]

\* What an interrupted write leaves at the path it was writing: an mp4
\* without its index, which no player can open.
BrokenFile == [duration |-> 0, layers |-> <<>>, audio |-> <<>>]

\* final.write_videofile(out, fps=25); return out.  The write goes
\* straight to the output path; when it fails (the encoder cannot start,
\* the disk fills up, the process is interrupted) the exception leaves
\* compose_final with nothing at the path or with the unfinished file.
WriteFinal ==
    /\ UNCHANGED notCf
    /\ cf_pc = "write"
    /\ \E outcome \in {"written", "failed_before", "failed_midway"} :
          IF outcome = "written"
          THEN /\ outfile' = Some(WrittenFile(final))
               /\ cf_pc' = "done"
               /\ cf_err' = cf_err
          ELSE /\ outfile' = IF outcome = "failed_midway" THEN Some(BrokenFile)
                             ELSE outfile
               /\ cf_pc' = "raised"
               /\ cf_err' = "IOError"
    /\ UNCHANGED <<clips, audios, scenes, font_ok, clip_file, audio_file, opened,
                   cf_i, video, audio, composed, final, padded_audios,
                   final_audio>>

\* A composed list that outlives the call (a module-level list, a mutable
\* default argument).
ComposedKept(prev) == prev

\* composed = []
ComposedAtEntry(prev) == <<>>

\* compose_final(clips, audios, scenes) is called a second time, with the
\* files where the first call left them: the inputs as they were, the
\* first output at the output path.
Rerun ==
    /\ UNCHANGED <<hVars, vcVars, rnVars, toolVars>>
    /\ cf_pc = "done"
    /\ cf_run = 1
    /\ cf_run' = 2
    /\ first_out' = outfile
    /\ cf_pc' = "assert"
    /\ composed' = ComposedAtEntry(composed)
    /\ opened' = {}
    /\ cf_i' = 0
    /\ video' = NoVideo
    /\ audio' = NoClip
    /\ final' = NoVideo
    /\ padded_audios' = <<>>
    /\ final_audio' = NoClip
    /\ cf_err' = "none"
    /\ UNCHANGED <<clips, audios, scenes, font_ok, clip_file, audio_file, outfile>>

CfNext ==
    \/ CheckLengths
    \/ AlignScene
    \/ MuxScene
    \/ Concatenate
    \/ RebuildAudio
    \/ WriteFinal

\* ------------------------------------------- VideoComposer.compose
\* scene.get('scene_number', 0)
SceneNum(scene) == IF scene.scene_number = None THEN 0 ELSE TheVal(scene.scene_number)

ScriptScenes ==
    [scene_number : {None} \cup {Some(n) : n \in 1..MaxScenes}, duration : 1..MaxDur]

\* A narration longer than any video that can be composed.
LongNarration == IntroDur + OutroDur + MaxScenes * MaxDur + 1

VcInit ==
    /\ vc_pc = "scenes"
    /\ script \in SeqsUpTo(ScriptScenes, MaxScenes)
    /\ visual_assets \in SUBSET (0..MaxScenes)
    /\ narration \in {None, Some(1), Some(LongNarration)}
    /\ scene_file = [n \in 0..MaxScenes |-> 0]
    /\ intro_file = 0
    /\ outro_file = 0
    /\ concat_file = 0
    /\ scene_videos = <<>>
    /\ vc_i = 1
    /\ vc_out = None
    /\ vc_ret = None
    /\ vc_err = "none"

VcIdle ==
    /\ vc_pc = "idle"
    /\ script = <<>>
    /\ visual_assets = {}
    /\ narration = None
    /\ scene_file = [n \in 0..MaxScenes |-> 0]
    /\ intro_file = 0
    /\ outro_file = 0
    /\ concat_file = 0
    /\ scene_videos = <<>>
    /\ vc_i = 1
    /\ vc_out = None
    /\ vc_ret = None
    /\ vc_err = "none"

\* _create_scene_animations, one turn of its loop: a scene without a
\* visual asset is skipped; otherwise ffmpeg writes scene_NN.mp4 of the
\* scene's duration, or fails (the animated command and then the simple
\* one), which raises CalledProcessError out of compose.
CreateSceneAnimation ==
    /\ UNCHANGED notVc
    /\ vc_pc = "scenes"
    /\ vc_i <= Len(script)
    /\ LET scene == script[vc_i]
           scene_num == SceneNum(scene)
       IN  IF scene_num \notin visual_assets
           THEN /\ vc_i' = vc_i + 1
                /\ UNCHANGED <<vc_pc, scene_file, scene_videos, vc_err>>
           ELSE \E ffmpeg_ok \in BOOLEAN :
                   IF ffmpeg_ok
                   THEN /\ scene_file' = [scene_file EXCEPT ![scene_num] = scene.duration]
                        /\ scene_videos' = Append(scene_videos, scene_num)
                        /\ vc_i' = vc_i + 1
                        /\ UNCHANGED <<vc_pc, vc_err>>
                   ELSE /\ vc_pc' = "raised"
                        /\ vc_err' = "CalledProcessError"
                        /\ UNCHANGED <<scene_file, scene_videos, vc_i>>
    /\ UNCHANGED <<script, visual_assets, narration, intro_file, outro_file,
                   concat_file, vc_out, vc_ret>>

\* _create_intro: intro.mp4 of 3 seconds, once the scene loop is over.
CreateIntro ==
    /\ UNCHANGED notVc
    /\ vc_pc = "scenes"
    /\ vc_i > Len(script)
    /\ \E ffmpeg_ok \in BOOLEAN :
          IF ffmpeg_ok
          THEN intro_file' = IntroDur /\ vc_pc' = "outro" /\ vc_err' = vc_err
          ELSE intro_file' = intro_file /\ vc_pc' = "raised"
               /\ vc_err' = "CalledProcessError"
    /\ UNCHANGED <<script, visual_assets, narration, scene_file, outro_file,
                   concat_file, scene_videos, vc_i, vc_out, vc_ret>>

\* _create_outro: outro.mp4 of 3 seconds.
CreateOutro ==
    /\ UNCHANGED notVc
    /\ vc_pc = "outro"
    /\ \E ffmpeg_ok \in BOOLEAN :
          IF ffmpeg_ok
          THEN outro_file' = OutroDur /\ vc_pc' = "concat" /\ vc_err' = vc_err
          ELSE outro_file' = outro_file /\ vc_pc' = "raised"
               /\ vc_err' = "CalledProcessError"
    /\ UNCHANGED <<script, visual_assets, narration, scene_file, intro_file,
                   concat_file, scene_videos, vc_i, vc_out, vc_ret>>

\* The concat list: [intro] + scene_videos + [outro], the paths that
\* exist, each with the duration of the file now at that path.
ConcatList ==
    SelectSeq(<<intro_file>> \o [k \in DOMAIN scene_videos |-> scene_file[scene_videos[k]]]
                  \o <<outro_file>>,
              LAMBDA d : d > 0)

\* _concatenate_videos: concatenated.mp4 holds the listed files end to end.
ConcatenateVideos ==
    /\ UNCHANGED notVc
    /\ vc_pc = "concat"
    /\ \E ffmpeg_ok \in BOOLEAN :
          IF ffmpeg_ok
          THEN concat_file' = SumSeq(ConcatList) /\ vc_pc' = "add_audio"
               /\ vc_err' = vc_err
          ELSE concat_file' = concat_file /\ vc_pc' = "raised"
               /\ vc_err' = "CalledProcessError"
    /\ UNCHANGED <<script, visual_assets, narration, scene_file, intro_file,
                   outro_file, scene_videos, vc_i, vc_out, vc_ret>>

\* What _add_audio leaves at output_path: a copy of the video when there
\* is no audio file, otherwise ffmpeg -shortest of the two.
AddAudioResult(video_dur, audio_opt) ==
    IF audio_opt = None
    THEN [duration |-> video_dur, audio |-> 0]
    ELSE [duration |-> Min({video_dur, TheVal(audio_opt)}),
          audio |-> Min({video_dur, TheVal(audio_opt)})]

\* What an interrupted cp or ffmpeg leaves at output_path.
BrokenOutput == [duration |-> 0, audio |-> 0]

\* _add_audio, then compose returns output_path.  cp and ffmpeg -y write
\* straight to output_path: a failure leaves nothing or an unfinished file.
AddAudio ==
    /\ UNCHANGED notVc
    /\ vc_pc = "add_audio"
    /\ \E ffmpeg_ok \in BOOLEAN :
          IF ffmpeg_ok
          THEN /\ vc_out' = Some(AddAudioResult(concat_file, narration))
               /\ vc_ret' = Some("output_path")
               /\ vc_pc' = "done"
               /\ vc_err' = vc_err
          ELSE /\ vc_pc' = "raised"
               /\ vc_err' = "CalledProcessError"
               /\ vc_out' \in {vc_out, Some(BrokenOutput)}
               /\ UNCHANGED vc_ret
    /\ UNCHANGED <<script, visual_assets, narration, scene_file, intro_file,
                   outro_file, concat_file, scene_videos, vc_i>>

VcNext ==
    \/ CreateSceneAnimation
    \/ CreateIntro
    \/ CreateOutro
    \/ ConcatenateVideos
    \/ AddAudio

\* ------------------------------------------------- run_pipeline.run
MaxSent == 3            \* most sentences extracted from the PDF
MaxPage == 2            \* most pages of the PDF

\* math.ceil(a / b) for b # 0
ceil_div(a, b) == IF b > 0 THEN -((-a) \div b) ELSE -(a \div (-b))

\* What extract_text_sentences can return: the sentences in page order,
\* each with its page; sentence k of the list is named by k.
Extractions ==
    {e \in SeqsUpTo(1..MaxPage, MaxSent) :
        \A a, b \in DOMAIN e : a < b => e[a] <= e[b]}

\* A per-scene file: f"scene_{num:02d}.{ext}" in the directory of its kind.
SceneFileName(num, ext) == [num |-> num, ext |-> ext]

\* A chunk size rounded down.
chunk_size_floor(total, n) == Max({1, total \div n})

\* extractive_scene_maker: chunk_size, and the bounds of chunk i
\* (i from 0), as 1-based positions first..last of the sentence list.
chunk_size(total, n) == Max({1, ceil_div(total, n)})
chunk_first(total, n, i) == i * chunk_size(total, n) + 1
chunk_last(total, n, i) == Min({total, (i + 1) * chunk_size(total, n)})

\* generate_visuals_for_scenes: one image per scene, named by sc['scene'].
generate_visuals_for_scenes(scs) ==
    [k \in DOMAIN scs |-> SceneFileName(scs[k].scene, "png")]

\* A make_clips_for_images that counts from 0 (enumerate without start=1).
make_clips_from_zero(image_paths) ==
    [i \in DOMAIN image_paths |-> SceneFileName(i - 1, "mp4")]

\* make_clips_for_images: one clip per image, named by its position,
\* enumerate(image_paths, start=1).
make_clips_for_images(image_paths) ==
    [i \in DOMAIN image_paths |-> SceneFileName(i, "mp4")]

\* generate_narration_files: one audio per scene, named by sc['scene'].
generate_narration_files(scs) ==
    [k \in DOMAIN scs |-> SceneFileName(scs[k].scene, "mp3")]

RunLocalsInit ==
    /\ r_i = 0
    /\ r_scenes = <<>>
    /\ images = <<>>
    /\ r_clips = <<>>
    /\ r_audios = <<>>
    /\ handed = None
    /\ r_err = "none"

RunInit ==
    /\ r_pc = "extract"
    /\ extracted \in Extractions
    /\ n_scenes \in (-1)..(MaxScenes + 1)
    /\ RunLocalsInit

RunIdle ==
    /\ r_pc = "idle"
    /\ extracted = <<>>
    /\ n_scenes = 0
    /\ RunLocalsInit

\* extracted = extract_text_sentences(pdf_path); if not extracted: raise
CheckExtracted ==
    /\ UNCHANGED notRn
    /\ r_pc = "extract"
    /\ IF extracted = <<>>
       THEN r_pc' = "raised" /\ r_err' = "RuntimeError"
       ELSE r_pc' = "script" /\ r_err' = r_err
    /\ UNCHANGED <<extracted, n_scenes, r_i, r_scenes, images, r_clips, r_audios,
                   handed>>

\* extractive_scene_maker, one turn of its loop: n_scenes = 0 divides by
\* zero before the loop; an empty chunk is skipped; otherwise the scene
\* i+1 is made of the sentence the embedding model scores highest, which
\* may be any sentence of the chunk.
SceneMakerStep ==
    /\ UNCHANGED notRn
    /\ r_pc = "script"
    /\ IF n_scenes = 0
       THEN /\ r_pc' = "raised"
            /\ r_err' = "ZeroDivisionError"
            /\ UNCHANGED <<r_i, r_scenes>>
       ELSE /\ r_i < n_scenes
            /\ LET total == Len(extracted)
                   first == chunk_first(total, n_scenes, r_i)
                   last == chunk_last(total, n_scenes, r_i)
               IN  IF first > last
                   THEN r_scenes' = r_scenes
                   ELSE \E idx \in first..last :
                           r_scenes' = Append(r_scenes,
                               [scene |-> r_i + 1, text |-> idx,
                                source_page |-> extracted[idx]])
            /\ r_i' = r_i + 1
            /\ UNCHANGED <<r_pc, r_err>>
    /\ UNCHANGED <<extracted, n_scenes, images, r_clips, r_audios, handed>>

\* return scenes; if not scenes: raise RuntimeError
SceneMakerReturn ==
    /\ UNCHANGED notRn
    /\ r_pc = "script"
    /\ n_scenes # 0
    /\ r_i >= n_scenes
    /\ IF r_scenes = <<>>
       THEN r_pc' = "raised" /\ r_err' = "RuntimeError"
       ELSE r_pc' = "visuals" /\ r_err' = r_err
    /\ UNCHANGED <<extracted, n_scenes, r_i, r_scenes, images, r_clips, r_audios,
                   handed>>

\* images = generate_visuals_for_scenes(scenes, use_sd=False); what it
\* raises (the image cannot be saved) leaves run.
GenerateVisuals ==
    /\ UNCHANGED notRn
    /\ r_pc = "visuals"
    /\ \E ok \in BOOLEAN :
          IF ok
          THEN /\ images' = generate_visuals_for_scenes(r_scenes)
               /\ r_pc' = "clips"
               /\ r_err' = r_err
          ELSE /\ r_pc' = "raised"
               /\ r_err' = "OSError"
               /\ UNCHANGED images
    /\ UNCHANGED <<extracted, n_scenes, r_i, r_scenes, r_clips, r_audios, handed>>

\* clips = make_clips_for_images(images, duration=per_scene_duration)
MakeClips ==
    /\ UNCHANGED notRn
    /\ r_pc = "clips"
    /\ \E ok \in BOOLEAN :
          IF ok
          THEN /\ r_clips' = make_clips_for_images(images)
               /\ r_pc' = "narration"
               /\ r_err' = r_err
          ELSE /\ r_pc' = "raised"
               /\ r_err' = "OSError"
               /\ UNCHANGED r_clips
    /\ UNCHANGED <<extracted, n_scenes, r_i, r_scenes, images, r_audios, handed>>

\* audios = generate_narration_files(scenes, ...): gTTS needs the network
\* and what it raises leaves run.
GenerateNarration ==
    /\ UNCHANGED notRn
    /\ r_pc = "narration"
    /\ \E ok \in BOOLEAN :
          IF ok
          THEN /\ r_audios' = generate_narration_files(r_scenes)
               /\ r_pc' = "compose"
               /\ r_err' = r_err
          ELSE /\ r_pc' = "raised"
               /\ r_err' = "gTTSError"
               /\ UNCHANGED r_audios
    /\ UNCHANGED <<extracted, n_scenes, r_i, r_scenes, images, r_clips, handed>>

\* The manifests are dumped; final = compose_final(clips, audios, scenes)
CallComposeFinal ==
    /\ UNCHANGED notRn
    /\ r_pc = "compose"
    /\ handed' = Some([clips |-> r_clips, audios |-> r_audios, scenes |-> r_scenes])
    /\ r_pc' = "done"
    /\ UNCHANGED <<extracted, n_scenes, r_i, r_scenes, images, r_clips, r_audios,
                   r_err>>

RunNext ==
    \/ CheckExtracted
    \/ SceneMakerStep
    \/ SceneMakerReturn
    \/ GenerateVisuals
    \/ MakeClips
    \/ GenerateNarration
    \/ CallComposeFinal

FirstRun == cf_run = 1 /\ first_out = None

\* ---------------------------------------- one call of a vibecoded function
\* Path.suffix.lower() on the suffixes drawn.
lower_suffix(sfx) == IF sfx = ".PDF" THEN ".pdf" ELSE sfx

\* ContentExtractor.supported_formats
supported_formats == {".pdf"}

\* ContentExtractor.extract(pdf_path) for a path of suffix sfx at which a
\* file exists or not; reader_ok is whether PyPDF2 can read the file.
extract(sfx, exists, reader_ok) ==
    IF ~exists
    THEN [err |-> "FileNotFoundError", read |-> FALSE, ret |-> None]
    ELSE IF lower_suffix(sfx) \notin supported_formats
    THEN [err |-> "ValueError", read |-> FALSE, ret |-> None]
    ELSE IF reader_ok
    THEN [err |-> "none", read |-> TRUE, ret |-> Some("extracted")]
    ELSE [err |-> "PdfReadError", read |-> TRUE, ret |-> None]

NoResult == [err |-> "none"]

UIdle ==
    /\ u_pc = "idle"
    /\ u_op = "none"
    /\ u_in = <<>>
    /\ u_out = NoResult

ApplyExtract ==
    /\ UNCHANGED notU
    /\ u_pc = "call"
    /\ u_op = "extract"
    /\ \E reader_ok \in BOOLEAN :
          u_out' = extract(u_in.sfx, u_in.exists, reader_ok)
    /\ u_pc' = "done"
    /\ UNCHANGED <<u_op, u_in>>

\* Python strings as sequences of characters over a small alphabet.
MaxStr == 5             \* most characters of a text handed to truncate_text

\* text[:k] where a negative k is clamped at 0.
py_slice_to_clamped(text, k) ==
    SubSeq(text, 1, Min({Max({k, 0}), Len(text)}))

\* text[:k] as Python slices: a negative k counts from the end.
py_slice_to(text, k) ==
    IF k >= 0
    THEN SubSeq(text, 1, Min({k, Len(text)}))
    ELSE SubSeq(text, 1, Max({0, Len(text) + k}))

\* the default of the parameter suffix of utils.truncate_text
suffix == <<".", ".", ".">>

\* utils.truncate_text(text, max_length)
truncate_text(text, max_length) ==
    IF Len(text) <= max_length
    THEN text
    ELSE py_slice_to(text, max_length - Len(suffix)) \o suffix

ApplyTruncate ==
    /\ UNCHANGED notU
    /\ u_pc = "call"
    /\ u_op = "truncate_text"
    /\ u_out' = [err |-> "none", ret |-> truncate_text(u_in.text, u_in.max_length)]
    /\ u_pc' = "done"
    /\ UNCHANGED <<u_op, u_in>>

\* ScriptWriter._parse_script: the scenes of the parsed JSON, each with its
\* 'duration' entry (None: the key is missing).
MaxParsed == 3          \* most scenes of a parsed script
DefaultSceneDur == 10   \* scene.get('duration', 10)
ScaleAbove == 60        \* if total_duration > 60
ScaleTo == 55           \* scale = 55 / total_duration

\* dict.get(key, default): the default stands in for a missing key only
dict_get(opt, default) == IF opt = None THEN default ELSE TheVal(opt)

\* sum(scene.get('duration', 10) for scene in script['scenes'])
total_duration(durs) ==
    SumSeq([i \in DOMAIN durs |-> dict_get(durs[i], DefaultSceneDur)])

\* int(scene.get('duration', 10) * scale) with scale = 55 / total; on the
\* durations drawn the float product truncates to the exact quotient.
scaled(opt, total) == (dict_get(opt, DefaultSceneDur) * ScaleTo) \div total

\* The 'duration' entries of the script _parse_script returns; max_duration
\* goes into the prompt only (script_writer.py:56) and is not a parameter.
parse_script(durs) ==
    IF total_duration(durs) > ScaleAbove
    THEN [i \in DOMAIN durs |-> Some(scaled(durs[i], total_duration(durs)))]
    ELSE durs

\* VideoComposer.compose: intro, one clip of scene.get('duration', 10)
\* seconds per scene, outro.
video_length(durs) ==
    IntroDur + SumSeq([i \in DOMAIN durs |-> dict_get(durs[i], DefaultSceneDur)])
        + OutroDur

ApplyParseScript ==
    /\ UNCHANGED notU
    /\ u_pc = "call"
    /\ u_op = "parse_script"
    /\ u_out' = [err |-> "none", ret |-> parse_script(u_in.scenes)]
    /\ u_pc' = "done"
    /\ UNCHANGED <<u_op, u_in>>

\* The words of the blocked patterns and of the drawn texts, spelled out.
W ==
    [ignore |-> <<"i", "g", "n", "o", "r", "e">>,
     previous |-> <<"p", "r", "e", "v", "i", "o", "u", "s">>,
     all |-> <<"a", "l", "l">>,
     above |-> <<"a", "b", "o", "v", "e">>,
     instructions |-> <<"i", "n", "s", "t", "r", "u", "c", "t", "i", "o", "n", "s">>,
     disregard |-> <<"d", "i", "s", "r", "e", "g", "a", "r", "d">>,
     system |-> <<"s", "y", "s", "t", "e", "m">>,
     you |-> <<"y", "o", "u">>,
     are |-> <<"a", "r", "e">>,
     script |-> <<"s", "c", "r", "i", "p", "t">>,
     javascript |-> <<"j", "a", "v", "a", "s", "c", "r", "i", "p", "t">>,
     eval |-> <<"e", "v", "a", "l">>,
     exec |-> <<"e", "x", "e", "c">>,
     import |-> <<"_", "_", "i", "m", "p", "o", "r", "t", "_", "_">>,
     subprocess |-> <<"s", "u", "b", "p", "r", "o", "c", "e", "s", "s">>,
     os_system |-> <<"o", "s", ".", "s", "y", "s", "t", "e", "m">>,
     sub |-> <<"s", "u", "b">>,
     process |-> <<"p", "r", "o", "c", "e", "s", "s">>,
     sub_upper |-> <<"S", "U", "B">>,
     ev |-> <<"e", "v">>,
     al_paren |-> <<"a", "l", "(">>,
     eval_paren |-> <<"e", "v", "a", "l", "(">>]

\* PDFtoShortsConverter._sanitize_content. A text is a sequence of
\* characters; a pattern is a sequence of elements: a literal character, a
\* run of white space (\s* or \s+), up to n characters other than a newline
\* (.{0,n}), or an alternation of words.
MaxFrag == 3            \* most fragments a drawn text is made of
SanitizeMaxLength == 50000

Lit(c) == [k |-> "lit", c |-> c, n |-> 0, of |-> <<>>]
Ws(atleast) == [k |-> "ws", c |-> "", n |-> atleast, of |-> <<>>]
AnyUpTo(most) == [k |-> "any", c |-> "", n |-> most, of |-> <<>>]
Alt(words) == [k |-> "alt", c |-> "", n |-> 0, of |-> words]
Word(word) == [i \in DOMAIN word |-> Lit(word[i])]

malicious_patterns == <<
    Word(W.ignore) \o <<Ws(1), Alt(<<W.previous, W.all, W.above>>), Ws(1)>>
        \o Word(W.instructions),
    Word(W.disregard) \o <<Ws(1), AnyUpTo(20)>> \o Word(W.instructions),
    Word(W.system) \o <<Ws(0), Lit(":"), Ws(0)>> \o Word(W.you) \o <<Ws(1)>>
        \o Word(W.are),
    <<Lit("<"), Ws(0)>> \o Word(W.script) \o <<Ws(0), Lit(">")>>,
    Word(W.javascript) \o <<Ws(0), Lit(":")>>,
    Word(W.eval) \o <<Ws(0), Lit("(")>>,
    Word(W.exec) \o <<Ws(0), Lit("(")>>,
    Word(W.import),
    Word(W.subprocess),
    Word(W.os_system)
>>

\* re.IGNORECASE on the upper-case letters drawn
casefold(c) ==
    CASE c = "S" -> "s"
      [] c = "U" -> "u"
      [] c = "B" -> "b"
      [] OTHER -> c

WhiteSpace == {" ", "\n", "\t"}

\* how many characters from position i on are in the set cs, at most `most`
RECURSIVE run_length(_, _, _, _)
run_length(text, i, cs, most) ==
    IF most = 0 \/ i > Len(text) \/ text[i] \notin cs
    THEN 0
    ELSE 1 + run_length(text, i + 1, cs, most - 1)

\* whether the word stands at position i of the text, case ignored
word_at(word, text, i) ==
    /\ i + Len(word) - 1 <= Len(text)
    /\ \A j \in DOMAIN word : casefold(text[i + j - 1]) = word[j]

\* The match of pat[k..] that the backtracking matcher finds first at
\* position i: None, or the position after the match. Runs are greedy and
\* alternatives are tried in order.
RECURSIVE match_end(_, _, _, _)
match_end(pat, k, text, i) ==
    IF k > Len(pat) THEN Some(i)
    ELSE CASE pat[k].k = "lit" ->
                IF i <= Len(text) /\ casefold(text[i]) = pat[k].c
                THEN match_end(pat, k + 1, text, i + 1)
                ELSE None
           [] pat[k].k = "ws" ->
                LET run == run_length(text, i, WhiteSpace, Len(text))
                    ok == {n \in pat[k].n..run :
                              match_end(pat, k + 1, text, i + n) # None}
                IN  IF ok = {} THEN None
                    ELSE match_end(pat, k + 1, text, i + Max(ok))
           [] pat[k].k = "any" ->
                LET run == run_length(text, i, {text[j] : j \in DOMAIN text} \ {"\n"},
                                      pat[k].n)
                    ok == {n \in 0..run :
                              match_end(pat, k + 1, text, i + n) # None}
                IN  IF ok = {} THEN None
                    ELSE match_end(pat, k + 1, text, i + Max(ok))
           [] pat[k].k = "alt" ->
                LET ok == {j \in DOMAIN pat[k].of :
                              /\ word_at(pat[k].of[j], text, i)
                              /\ match_end(pat, k + 1, text,
                                           i + Len(pat[k].of[j])) # None}
                IN  IF ok = {} THEN None
                    ELSE match_end(pat, k + 1, text,
                                   i + Len(pat[k].of[Min(ok)]))

\* re.search(pat, text, re.IGNORECASE) is not None
re_search(pat, text) ==
    \E i \in 1..(Len(text) + 1) : match_end(pat, 1, text, i) # None

\* re.sub(pat, '', text, flags=re.IGNORECASE) from position i on: the
\* leftmost match is removed and the scan goes on after it. No blocked
\* pattern matches the empty string.
RECURSIVE re_sub_from(_, _, _)
re_sub_from(pat, text, i) ==
    IF i > Len(text) THEN <<>>
    ELSE LET e == match_end(pat, 1, text, i)
         IN  IF e # None
             THEN re_sub_from(pat, text, TheVal(e))
             ELSE <<text[i]>> \o re_sub_from(pat, text, i + 1)

\* for pattern in malicious_patterns: sanitized = re.sub(pattern, '', ...)
RECURSIVE remove_patterns(_, _, _)
remove_patterns(pats, k, text) ==
    IF k > Len(pats) THEN text
    ELSE remove_patterns(pats, k + 1, re_sub_from(pats[k], text, 1))

\* re.sub(c{atleast,}, rep, text): every run of at least `atleast`
\* characters c becomes rep
RECURSIVE collapse_runs(_, _, _, _, _)
collapse_runs(text, i, c, atleast, rep) ==
    IF i > Len(text) THEN <<>>
    ELSE LET run == run_length(text, i, {c}, Len(text))
         IN  IF run >= atleast
             THEN rep \o collapse_runs(text, i + run, c, atleast, rep)
             ELSE <<text[i]>> \o collapse_runs(text, i + 1, c, atleast, rep)

\* PDFtoShortsConverter._sanitize_content(text)
sanitize_content(text) ==
    LET removed == remove_patterns(malicious_patterns, 1, text)
        lines == collapse_runs(removed, 1, "\n", 3, <<"\n", "\n">>)
        spaced == collapse_runs(lines, 1, " ", 2, <<" ">>)
        limited == IF Len(spaced) > SanitizeMaxLength
                   THEN SubSeq(spaced, 1, SanitizeMaxLength) \o suffix
                   ELSE spaced
    IN  strip(limited)

\* The pieces the drawn texts are put together from.
Fragments == {W.sub, W.process, W.subprocess, W.sub_upper, W.ev, W.al_paren,
              W.eval_paren, <<" ">>}

RECURSIVE Joined(_)
Joined(n) ==
    IF n = 0 THEN {<<>>}
    ELSE LET shorter == Joined(n - 1)
         IN  shorter \cup {t \o f : t \in shorter, f \in Fragments}

ApplySanitize ==
    /\ UNCHANGED notU
    /\ u_pc = "call"
    /\ u_op = "sanitize_content"
    /\ u_out' = [err |-> "none", ret |-> sanitize_content(u_in.text)]
    /\ u_pc' = "done"
    /\ UNCHANGED <<u_op, u_in>>

UNext ==
    \/ ApplyExtract
    \/ ApplyTruncate
    \/ ApplyParseScript
    \/ ApplySanitize

\* ------------------------------------------------- utils.SimpleCache
CacheKeys == {"k1", "k2"}

\* The values handed to set: a dict of strings, a dict with an int key
\* ({1: "a"}), a dict holding an object json cannot encode
\* ({"path": Path("x")}).
CacheValues == {"str_dict", "int_key_dict", "path_dict"}

\* SimpleCache.get_cache_path: <md5 of the key>.json; the keys drawn have
\* different digests.
get_cache_path(key) == IF key = "k1" THEN "h1.json" ELSE "h2.json"

CacheFiles == {get_cache_path(k) : k \in CacheKeys}

\* What json.dump(value, f) writes and whether it raises: json writes
\* an int key as a string, and raises TypeError at the first object it
\* cannot encode, after the text before it is written.
json_dump(value) ==
    CASE value = "str_dict" -> [text |-> "str_dict", raised |-> FALSE]
      [] value = "int_key_dict" -> [text |-> "str_key_dict", raised |-> FALSE]
      [] OTHER -> [text |-> "cut_off", raised |-> TRUE]

\* json.load(f): None when it raises JSONDecodeError, else the value read
json_load(text) == IF text = "cut_off" THEN None ELSE Some(text)

CIdle ==
    /\ c_files = [f \in CacheFiles |-> None]
    /\ c_expect = [k \in CacheKeys |-> None]
    /\ c_got = None

\* SimpleCache.get(key); the read itself may fail (permissions, I/O error).
CacheGet ==
    /\ UNCHANGED notC
    /\ \E key \in CacheKeys, read_ok \in BOOLEAN :
          LET cache_path == get_cache_path(key)
              ret == IF c_files[cache_path] = None THEN None
                     ELSE IF read_ok THEN json_load(TheVal(c_files[cache_path]))
                     ELSE None
          IN  c_got' = Some([key |-> key, ret |-> ret])
    /\ UNCHANGED <<c_files, c_expect>>

\* SimpleCache.set(key, value): open(cache_path, 'w') empties the file, then
\* json.dump writes; every exception is logged and swallowed.
CacheSet ==
    /\ UNCHANGED notC
    /\ \E key \in CacheKeys, value \in CacheValues,
          outcome \in {"written", "open_failed", "write_failed"} :
          LET cache_path == get_cache_path(key)
              dumped == json_dump(value)
          IN  /\ c_files' =
                    IF outcome = "open_failed" THEN c_files
                    ELSE IF outcome = "write_failed" \/ dumped.raised
                    THEN [c_files EXCEPT ![cache_path] = Some("cut_off")]
                    ELSE [c_files EXCEPT ![cache_path] = Some(dumped.text)]
              /\ c_expect' = [c_expect EXCEPT ![key] = Some(value)]
    /\ c_got' = None

\* SimpleCache.clear() -> clean_directory(cache_dir, ['*.json']): a file
\* whose unlink fails is logged and left.
CacheClear ==
    /\ UNCHANGED notC
    /\ \E kept \in SUBSET {f \in CacheFiles : c_files[f] # None} :
          c_files' = [f \in CacheFiles |-> IF f \in kept THEN c_files[f] ELSE None]
    /\ c_expect' = [k \in CacheKeys |-> None]
    /\ c_got' = None

CacheNext ==
    \/ CacheGet
    \/ CacheSet
    \/ CacheClear

\* ------------------------------------------------- Narrator.generate_audio
MaxNarrated == 2        \* most scenes of the script handed to generate_audio

\* The texts of a script: empty or one word.
ScriptTexts == {<<>>, <<"w">>}

\* ' '.join(parts)
RECURSIVE join_with_space(_)
join_with_space(parts) ==
    IF parts = <<>> THEN <<>>
    ELSE IF Len(parts) = 1 THEN Head(parts)
    ELSE Head(parts) \o <<" ">> \o join_with_space(Tail(parts))

\* [x for x in texts if x]
RECURSIVE non_empty(_)
non_empty(texts) ==
    IF texts = <<>> THEN <<>>
    ELSE IF Head(texts) # <<>> THEN <<Head(texts)>> \o non_empty(Tail(texts))
    ELSE non_empty(Tail(texts))

\* ' '.join(narration_parts) with narration_parts: the hook if the key is there, the scene narrations that
\* are not empty, the conclusion if the key is there, "Source: <title>" if
\* the script has a source_title.
full_narration(scr) ==
    join_with_space(
        (IF scr.hook # None THEN <<TheVal(scr.hook)>> ELSE <<>>)
        \o non_empty(scr.scenes)
        \o (IF scr.conclusion # None THEN <<TheVal(scr.conclusion)>> ELSE <<>>)
        \o (IF scr.source_title # None
            THEN <<<<"S", ":", " ">> \o TheVal(scr.source_title)>>
            ELSE <<>>))

\* The files of output_dir
NarratorFiles == {"narration.mp3", "narration_adjusted.mp3"}

\* What gTTS(text=...).save(path) can do: gTTS() asserts that the text is
\* not empty before any file is opened; save opens the file and raises
\* when there is nothing to speak or when the request fails.
TtsOutcomes(text) ==
    IF text = <<>> THEN {"failed_before"}
    ELSE IF \A i \in DOMAIN text : text[i] = " " THEN {"failed_midway"}
    ELSE {"saved", "failed_midway"}

\* What subprocess.run(['ffmpeg', ...], check=True) can do: succeed, raise
\* CalledProcessError, FileNotFoundError (no ffmpeg) or another OSError
\* (ffmpeg not executable).
FfmpegOutcomes == {"ok", "CalledProcessError", "FileNotFoundError", "PermissionError"}

NIdle ==
    /\ n_pc = "idle"
    /\ n_script = [hook |-> None, scenes |-> <<>>, conclusion |-> None,
                   source_title |-> None]
    /\ n_files = [f \in NarratorFiles |-> None]
    /\ n_tts_failed = FALSE
    /\ n_ret = None
    /\ n_err = "none"

\* tts = gTTS(text=full_narration, ...); tts.save(output_path)
TtsSave ==
    /\ UNCHANGED notN
    /\ n_pc = "tts"
    /\ \E outcome \in TtsOutcomes(full_narration(n_script)) :
          /\ n_files' =
                CASE outcome = "saved" -> [n_files EXCEPT !["narration.mp3"] = Some("speech")]
                  [] outcome = "failed_midway" -> [n_files EXCEPT !["narration.mp3"] = Some("cut_off")]
                  [] OTHER -> n_files
          /\ n_tts_failed' = (outcome # "saved")
          /\ n_pc' = IF outcome = "saved" THEN "speed" ELSE "silent"
    /\ UNCHANGED <<n_script, n_ret, n_err>>

\* The inner try: ffmpeg atempo=1.1 into narration_adjusted.mp3. A
\* CalledProcessError or FileNotFoundError keeps the original; any other
\* exception reaches the outer except and its silent fallback.
AdjustSpeed ==
    /\ UNCHANGED notN
    /\ n_pc = "speed"
    /\ \E outcome \in FfmpegOutcomes :
          /\ n_files' \in
                CASE outcome = "ok" -> {[n_files EXCEPT !["narration_adjusted.mp3"] = Some("speech")]}
                  [] outcome = "CalledProcessError" ->
                        {n_files, [n_files EXCEPT !["narration_adjusted.mp3"] = Some("cut_off")]}
                  [] OTHER -> {n_files}
          /\ n_ret' =
                CASE outcome = "ok" -> Some("narration_adjusted.mp3")
                  [] outcome = "PermissionError" -> None
                  [] OTHER -> Some("narration.mp3")
          /\ n_pc' = IF outcome = "PermissionError" THEN "silent" ELSE "done"
    /\ UNCHANGED <<n_script, n_tts_failed, n_err>>

\* except Exception: output_path = self._create_silent_audio(60); return.
\* _create_silent_audio passes over CalledProcessError and
\* FileNotFoundError and returns the path all the same; any other
\* exception leaves generate_audio.
CreateSilentAudio ==
    /\ UNCHANGED notN
    /\ n_pc = "silent"
    /\ \E outcome \in FfmpegOutcomes :
          /\ n_files' \in
                CASE outcome = "ok" -> {[n_files EXCEPT !["narration.mp3"] = Some("silence")]}
                  [] outcome = "CalledProcessError" ->
                        {n_files, [n_files EXCEPT !["narration.mp3"] = Some("cut_off")]}
                  [] OTHER -> {n_files}
          /\ n_ret' = IF outcome = "PermissionError" THEN None ELSE Some("narration.mp3")
          /\ n_err' = IF outcome = "PermissionError" THEN "PermissionError" ELSE "none"
          /\ n_pc' = IF outcome = "PermissionError" THEN "raised" ELSE "done"
    /\ UNCHANGED <<n_script, n_tts_failed>>

NarratorNext ==
    \/ TtsSave
    \/ AdjustSpeed
    \/ CreateSilentAudio

\* ------------------------------------------------- ScriptWriter.generate_script
\* A retry loop that allows one more attempt.
max_retries_plus_one == 3 + 1

\* max_retries = 3
max_retries == 3

\* What one attempt can end with: the scenes of the response, or an
\* exception of generate_content, response.text or _parse_script.
AttemptOutcomes ==
    {[ok |-> TRUE, scenes |-> r, err |-> "none"] :
        r \in {<<Some(30)>>, <<Some(60), Some(30)>>, <<None, Some(1)>>}}
    \cup {[ok |-> FALSE, scenes |-> <<>>, err |-> x] :
            x \in {"ResourceExhausted", "DeadlineExceeded", "ValueError", "KeyError"}}

SwIdle ==
    /\ sw_pc = "idle"
    /\ sw_attempt = 0
    /\ sw_log = <<>>
    /\ sw_ret = None
    /\ sw_err = "none"

\* One pass of the loop body: the call of the model and _parse_script,
\* then return, or the except branch (sleep and go on, or raise).
Attempt ==
    /\ UNCHANGED notSw
    /\ sw_pc = "loop"
    /\ sw_attempt < max_retries
    /\ \E outcome \in AttemptOutcomes :
          /\ sw_log' = Append(sw_log, outcome)
          /\ IF outcome.ok
             THEN /\ sw_ret' = Some(parse_script(outcome.scenes))
                  /\ sw_pc' = "done"
                  /\ UNCHANGED <<sw_attempt, sw_err>>
             ELSE IF sw_attempt < max_retries - 1
             THEN /\ sw_attempt' = sw_attempt + 1
                  /\ UNCHANGED <<sw_pc, sw_ret, sw_err>>
             ELSE /\ sw_err' = outcome.err
                  /\ sw_pc' = "raised"
                  /\ UNCHANGED <<sw_attempt, sw_ret>>

SwNext ==
    \/ Attempt

\* ------------------------------------------------- apiapp.generate_video
\* for _ in range(30)
max_polls == 30

\* What GET /renders/<id> can answer: a status code, and in the body a
\* status and a video_url (None: the key is missing or null); or the
\* request raises.
PollReports ==
    [http : {200, 503},
     status : {"processing", "completed", "failed"},
     video_url : {None, Some(""), Some("https://v/1.mp4")}]

\* not video_url
no_url(url) == url = None \/ TheVal(url) = ""

ApIdle ==
    /\ a_pc = "idle"
    /\ a_polls = 0
    /\ a_seen = {}
    /\ a_video_url = None
    /\ a_answer = None

\* One pass of the polling loop that ends with continue, break or the
\* return of the 'failed' branch.
Poll ==
    /\ UNCHANGED notAp
    /\ a_pc = "poll"
    /\ a_polls < max_polls
    /\ a_polls' = a_polls + 1
    /\ \E report \in PollReports :
          LET go_on == IF a_polls + 1 < max_polls THEN "poll" ELSE "after"
          IN  IF report.http # 200
              THEN /\ a_pc' = go_on
                   /\ UNCHANGED <<a_seen, a_video_url, a_answer>>
              ELSE /\ a_seen' = a_seen \cup {report.status}
                   /\ CASE report.status = "completed" ->
                             /\ a_video_url' = report.video_url
                             /\ a_pc' = "after"
                             /\ UNCHANGED a_answer
                        [] report.status = "failed" ->
                             /\ a_answer' = Some([code |-> 500,
                                                  body |-> "Video generation failed"])
                             /\ a_pc' = "done"
                             /\ UNCHANGED a_video_url
                        [] OTHER ->
                             /\ a_pc' = go_on
                             /\ UNCHANGED <<a_video_url, a_answer>>

\* requests.get or status_resp.json() raises: the exception leaves the handler.
PollRaises ==
    /\ UNCHANGED notAp
    /\ a_pc = "poll"
    /\ a_polls < max_polls
    /\ a_polls' = a_polls + 1
    /\ a_pc' = "raised"
    /\ UNCHANGED <<a_seen, a_video_url, a_answer>>

\* After the loop: 504 if not video_url, else the video URL.
Answer ==
    /\ UNCHANGED notAp
    /\ a_pc = "after"
    /\ a_answer' = IF no_url(a_video_url)
                   THEN Some([code |-> 504, body |-> "Timeout waiting for video"])
                   ELSE Some([code |-> 200, body |-> TheVal(a_video_url)])
    /\ a_pc' = "done"
    /\ UNCHANGED <<a_polls, a_seen, a_video_url>>

ApNext ==
    \/ Poll
    \/ PollRaises
    \/ Answer

ToolsIdle == UIdle /\ CIdle /\ NIdle /\ SwIdle /\ ApIdle

MediaIdle == CfIdle /\ FirstRun /\ HIdle /\ VcIdle /\ RunIdle

Init == CfInit /\ FirstRun /\ HIdle /\ VcIdle /\ RunIdle /\ ToolsIdle

AlignInit == HInit /\ CfIdle /\ FirstRun /\ VcIdle /\ RunIdle /\ ToolsIdle

ComposerInit == VcInit /\ CfIdle /\ FirstRun /\ HIdle /\ RunIdle /\ ToolsIdle

PipelineInit == RunInit /\ CfIdle /\ FirstRun /\ HIdle /\ VcIdle /\ ToolsIdle

\* One call: the function and its arguments. extract: the suffix of the
\* path and whether a file is there; truncate_text: a text and max_length;
\* _parse_script: the 'duration' entries of the scenes of the response
\* (None: no entry) and the max_duration of the preset; _sanitize_content:
\* a text put together from fragments.
UtilInit ==
    /\ u_pc = "call"
    /\ u_out = NoResult
    /\ \/ /\ u_op = "extract"
          /\ u_in \in [sfx : {".pdf", ".PDF", ".txt", ""}, exists : BOOLEAN]
       \/ /\ u_op = "truncate_text"
          /\ u_in \in [text : SeqsUpTo({"a", "b"}, MaxStr),
                       max_length : 0..(MaxStr + 1)]
       \/ /\ u_op = "parse_script"
          /\ u_in \in [scenes : SeqsUpTo({None, Some(1), Some(30), Some(60)}, MaxParsed),
                       max_duration : {30, 60, 90}]
       \/ /\ u_op = "sanitize_content"
          /\ u_in \in [text : Joined(MaxFrag)]
    /\ MediaIdle /\ CIdle /\ NIdle /\ SwIdle /\ ApIdle

CacheInit == CIdle /\ MediaIdle /\ UIdle /\ NIdle /\ SwIdle /\ ApIdle

\* A call of generate_audio: in the script 'hook', 'conclusion' and
\* 'source_title' may be missing and every scene has its 'narration' (''
\* when it has none); output_dir may hold the files of an earlier call.
GenerateAudioInit ==
    /\ n_pc = "tts"
    /\ n_script \in
          [hook : {None} \cup {Some(t) : t \in ScriptTexts},
           scenes : SeqsUpTo(ScriptTexts, MaxNarrated),
           conclusion : {None} \cup {Some(t) : t \in ScriptTexts},
           source_title : {None, Some(<<"w">>)}]
    /\ n_files \in [NarratorFiles -> {None, Some("old_speech")}]
    /\ n_tts_failed = FALSE
    /\ n_ret = None
    /\ n_err = "none"
    /\ MediaIdle /\ UIdle /\ CIdle /\ SwIdle /\ ApIdle

\* generate_script is called: for attempt in range(max_retries) starts.
GenerateScriptInit ==
    /\ sw_pc = "loop"
    /\ sw_attempt = 0
    /\ sw_log = <<>>
    /\ sw_ret = None
    /\ sw_err = "none"
    /\ MediaIdle /\ UIdle /\ CIdle /\ NIdle /\ ApIdle

\* The submit succeeded and gave a render id: video_url = None, the loop starts.
GenerateVideoInit ==
    /\ a_pc = "poll"
    /\ a_polls = 0
    /\ a_seen = {}
    /\ a_video_url = None
    /\ a_answer = None
    /\ MediaIdle /\ UIdle /\ CIdle /\ NIdle /\ SwIdle

\* compose_final called on lists of one length, the scenes in order.
RerunInit ==
    /\ cf_pc = "assert"
    /\ \E n \in 0..MaxScenes :
          /\ clips = [i \in 1..n |-> i]
          /\ audios = [i \in 1..n |-> i]
          /\ scenes \in {s \in SceneLists(n) : \A i \in 1..n : s[i].scene = i}
    /\ font_ok \in BOOLEAN
    /\ clip_file = <<>>
    /\ audio_file = <<>>
    /\ CfLocalsInit
    /\ FirstRun
    /\ HIdle
    /\ VcIdle
    /\ RunIdle
    /\ ToolsIdle

RerunNext == CfNext \/ Rerun

\* compose_final on every input within the bounds.
Spec == Init /\ [][CfNext]_vars

\* One call of the aligner (composer or narrator) on every input within
\* the bounds.
SpecAlign == AlignInit /\ [][HNext]_vars

\* VideoComposer.compose on every input within the bounds.
SpecComposer == ComposerInit /\ [][VcNext]_vars

\* run on every extraction and every n_scenes within the bounds.
SpecPipeline == PipelineInit /\ [][RunNext]_vars

\* One call of a vibecoded function on every input within the bounds.
SpecUtil == UtilInit /\ [][UNext]_vars

\* SimpleCache under every sequence of get, set and clear.
SpecCache == CacheInit /\ [][CacheNext]_vars

\* One call of Narrator.generate_audio.
SpecNarrator == GenerateAudioInit /\ [][NarratorNext]_vars

\* One call of ScriptWriter.generate_script.
SpecScriptWriter == GenerateScriptInit /\ [][SwNext]_vars

\* The polling of one /generate_video request.
SpecApi == GenerateVideoInit /\ [][ApNext]_vars

\* compose_final called twice on the same input.
SpecRerun == RerunInit /\ [][RerunNext]_vars

\* ------------------------------------------------------------ claims
\* What the files found on disk say, independently of the clips built:
\* the duration of scene k's visual, and its audio fitted to it by hand.
VisualDur(k) == clip_file[clips[k]]

Zeros(n) == [t \in 1..n |-> Silent]

Fitted(samples, d) ==
    IF Len(samples) < d THEN samples \o Zeros(d - Len(samples))
    ELSE SubSeq(samples, 1, d)

RECURSIVE Flatten(_)
Flatten(ss) == IF ss = <<>> THEN <<>> ELSE Head(ss) \o Flatten(Tail(ss))

Mismatch == ~(Len(clips) = Len(audios) /\ Len(clips) = Len(scenes))

\* C1: an input whose three lists are not all of the same length never
\* gets past the length check: compose_final ends in AssertionError with
\* no file opened, no scene composed and nothing at the output path.
C1_MismatchRejectedFirst ==
    Mismatch =>
        /\ cf_pc \in {"assert", "raised"}
        /\ (cf_pc = "raised" => cf_err = "AssertionError")
        /\ opened = {}
        /\ composed = <<>>
        /\ outfile = None

C1_Witness == Mismatch /\ cf_pc = "raised" /\ cf_err = "AssertionError"

\* C2: pad_audio_to_duration(audio, d) with d > 0 returns a clip whose
\* duration is d and that plays for exactly d ticks, whether the audio is
\* shorter than, as long as or longer than d.
C2_AlignedDurationIsTarget ==
    (h_pc = "done" /\ h_op = "pad" /\ h_target > 0) =>
        /\ h_clip.duration = h_target
        /\ h_clip.end - h_clip.start = h_target
        /\ Len(Render(h_clip)) = h_target

C2_Witness ==
    /\ h_pc = "done" /\ h_op = "pad"
    /\ Len(h_audio) > 0 /\ Len(h_audio) < h_target
    /\ h_clip.duration = h_target

\* C3: when the audio is shorter than the target, the aligned audio is the
\* original samples followed by d - n zero samples and nothing else.
C3_PaddingLaw ==
    (h_pc = "done" /\ h_op = "pad" /\ Len(h_audio) < h_target) =>
        Render(h_clip) = h_audio \o Zeros(h_target - Len(h_audio))

C3_Witness ==
    /\ h_pc = "done" /\ h_op = "pad"
    /\ Len(h_audio) = 1 /\ h_audio[1] # Silent /\ h_target = MaxDur
    /\ Render(h_clip) = h_audio \o Zeros(MaxDur - 1)

\* C4: when the audio is longer than a positive target, the aligned audio
\* is the first d samples of the original, in the composer's aligner and
\* in the narrator's fitting of the speech to target_duration_ms.
C4_TrimmingLaw ==
    /\ (h_pc = "done" /\ h_op = "pad" /\ h_target > 0 /\ Len(h_audio) > h_target) =>
            Render(h_clip) = SubSeq(h_audio, 1, h_target)
    /\ (/\ h_pc = "done" /\ h_op = "tts"
        /\ h_text # None /\ is_speakable(TheVal(h_text))
        /\ Truthy(h_target_ms)
        /\ Len(h_audio) > TheVal(h_target_ms) \div 1000) =>
            h_file = Some(SubSeq(h_audio, 1, TheVal(h_target_ms) \div 1000))

C4_Witness ==
    /\ h_pc = "done" /\ h_op = "pad"
    /\ h_target = 1 /\ Len(h_audio) = 2 /\ h_audio[1] # h_audio[2]
    /\ Render(h_clip) = <<h_audio[1]>>

\* C10: a target <= 0 makes the alignment fail with an invalid-duration
\* error and leaves no aligned audio, in pad_audio_to_duration and in
\* tts_gtts.
C10_NonPositiveTargetRejected ==
    (/\ h_pc = "done"
     /\ \/ h_op = "pad" /\ h_target <= 0
        \/ h_op = "tts" /\ h_target_ms # None /\ TheVal(h_target_ms) <= 0) =>
        /\ h_err = "InvalidDurationError"
        /\ h_clip = NoClip
        /\ h_file = None

\* C5: once the timeline is built, its duration is the sum of the scenes'
\* visual durations, scene k lies exactly on [sum of the earlier ones, that
\* plus its own), and the attached audio lasts as long; the written file
\* has that duration and that much audio.
C5_TimelineDurationIsSum ==
    cf_pc \in {"write", "done"} =>
        LET durs == [k \in 1..Len(scenes) |-> VisualDur(k)]
            total == SumSeq(durs)
        IN  /\ final.duration = total
            /\ final.end - final.start = total
            /\ Len(final.layers) = Len(scenes)
            /\ \A k \in 1..Len(scenes) :
                  /\ final.layers[k].start = SumSeq(SubSeq(durs, 1, k - 1))
                  /\ final.layers[k].end = SumSeq(SubSeq(durs, 1, k))
            /\ final.audio # None
            /\ TheVal(final.audio).duration = total
            /\ Len(Render(TheVal(final.audio))) = total
            /\ (cf_pc = "done" =>
                  /\ outfile # None
                  /\ TheVal(outfile).duration = total
                  /\ Len(TheVal(outfile).audio) = total)

C5_Witness ==
    /\ cf_pc = "done"
    /\ Len(scenes) = MaxScenes
    /\ VisualDur(1) # VisualDur(2)
    /\ TheVal(outfile).duration = VisualDur(1) + VisualDur(2)
           + SumSeq([k \in 1..(MaxScenes - 2) |-> VisualDur(k + 2)])

\* C6: every composed scene lasts exactly as long as its visual clip, and
\* so does the audio attached to it, whatever the length of the narration
\* file and with or without the footer.
C6_SceneKeepsVisualDuration ==
    \A k \in DOMAIN composed :
        /\ composed[k].duration = VisualDur(k)
        /\ composed[k].end - composed[k].start = VisualDur(k)
        /\ composed[k].audio # None
        /\ TheVal(composed[k].audio).duration = VisualDur(k)

C6_Witness ==
    /\ Len(composed) = 2
    /\ composed[1].layers[1].text
    /\ Len(audio_file[audios[1]]) > VisualDur(1)
    /\ ~composed[2].layers[1].text
    /\ Len(audio_file[audios[2]]) < VisualDur(2)
    /\ composed[1].duration = VisualDur(1)
    /\ composed[2].duration = VisualDur(2)

\* C7: the scenes of the written timeline are in strictly ascending
\* scene number, whatever the order of the scene records.
C7_TimelineAscendingSceneNumbers ==
    cf_pc = "done" =>
        LET shown == TheVal(outfile).layers
        IN  \A k, l \in DOMAIN shown :
                k < l => scenes[shown[k].src].scene < scenes[shown[l].src].scene

\* C8: the audio of the final video is the scenes' aligned audios end to
\* end, so that scene k's narration lies exactly on scene k's span of the
\* timeline; the last pad/trim to the video's duration changes nothing.
C8_FinalAudioIsConcatenation ==
    cf_pc \in {"write", "done"} =>
        LET durs == [k \in 1..Len(scenes) |-> VisualDur(k)]
            expected == [k \in 1..Len(scenes) |->
                            Fitted(audio_file[audios[k]], VisualDur(k))]
            track == Render(TheVal(final.audio))
            joined == concatenate_audioclips(padded_audios)
        IN  /\ track = Flatten(expected)
            /\ \A k \in 1..Len(scenes) :
                  SubSeq(track, SumSeq(SubSeq(durs, 1, k - 1)) + 1,
                         SumSeq(SubSeq(durs, 1, k))) = expected[k]
            /\ joined.duration = final.duration
            /\ track = Render(joined)
            /\ (cf_pc = "done" => TheVal(outfile).audio = Flatten(expected))

C8_Witness ==
    /\ cf_pc = "done"
    /\ Len(scenes) = 2
    /\ Len(audio_file[audios[1]]) < VisualDur(1)
    /\ Len(audio_file[audios[2]]) > VisualDur(2)
    /\ TheVal(outfile).audio =
           Fitted(audio_file[audios[1]], VisualDur(1))
               \o Fitted(audio_file[audios[2]], VisualDur(2))

\* C9: composing zero scenes ends in an error and returns no output path,
\* in compose_final and in VideoComposer.compose.
C9_EmptyInputFails ==
    /\ (cf_pc \in {"done", "raised"} /\ clips = <<>> /\ audios = <<>> /\ scenes = <<>>) =>
            (cf_pc = "raised" /\ outfile = None)
    /\ (vc_pc \in {"done", "raised"} /\ script = <<>>) =>
            (vc_pc = "raised" /\ vc_ret = None /\ vc_out = None)

\* C11: whenever VideoComposer.compose succeeds, the timeline holds one
\* segment per scene of the script, each of the scene's declared duration,
\* between the intro and the outro: a scene without a visual asset is
\* replaced by a blank segment, never dropped.
C11_OneSegmentPerDeclaredScene ==
    vc_pc = "done" =>
        /\ Len(scene_videos) = Len(script)
        /\ concat_file = IntroDur
                           + SumSeq([k \in DOMAIN script |-> script[k].duration])
                           + OutroDur

\* A narration with nothing to pronounce: missing, empty, or without any
\* letter.
Unspeakable(text) ==
    text = None \/ \A i \in DOMAIN TheVal(text) : TheVal(text)[i] \notin Letters

\* C12: a scene whose narration is None, empty or without pronounceable
\* content gets an audio asset that is silent throughout and lasts the
\* scene's declared duration, from tts_gtts (positive target) and from
\* Narrator.generate_scene_audios; the scene is never left without one.
C12_EmptyNarrationGetsSilence ==
    (/\ h_pc = "done"
     /\ Unspeakable(h_text)
     /\ \/ h_op = "tts" /\ h_target_ms # None /\ TheVal(h_target_ms) > 0
        \/ h_op = "scene_audio") =>
        /\ h_file # None
        /\ \A t \in DOMAIN TheVal(h_file) : TheVal(h_file)[t] = Silent
        /\ Len(TheVal(h_file)) = IF h_op = "tts" THEN TheVal(h_target_ms) \div 1000
                                 ELSE h_target

\* C13: in every run of compose_final a scene is composed only once its
\* files are open and its audio is fitted to its clip, the timeline is
\* concatenated only when every scene has been composed with its fitted
\* audio, and the output is written only from the concatenated timeline.
C13_AlignMuxConcatWriteOrder ==
    [][/\ (composed' # composed) =>
              /\ cf_pc = "mux"
              /\ Len(composed) = cf_i - 1
              /\ <<"clip", clips[cf_i]>> \in opened
              /\ <<"audio", audios[cf_i]>> \in opened
              /\ audio.duration = VisualDur(cf_i)
              /\ Render(audio) = Fitted(audio_file[audios[cf_i]], VisualDur(cf_i))
       /\ (final' # final /\ final = NoVideo) =>
              /\ Len(composed) = Len(scenes)
              /\ \A k \in DOMAIN composed :
                    /\ composed[k].audio # None
                    /\ TheVal(composed[k].audio).duration = VisualDur(k)
       /\ (outfile' # outfile) =>
              /\ final # NoVideo
              /\ Len(final.layers) = Len(scenes)
              /\ final.audio # None
      ]_vars

C13_Witness ==
    /\ cf_pc = "done"
    /\ Len(scenes) = MaxScenes
    /\ Len(composed) = MaxScenes
    /\ Len(final.layers) = MaxScenes
    /\ outfile = Some(WrittenFile(final))
    /\ \A k \in DOMAIN composed : Len(audio_file[audios[k]]) # VisualDur(k)

\* C14: when composition has failed, also during the final write or the
\* audio attach, nothing is at the output path; a file at the output path
\* is the complete final video.
C14_NoOutputAfterFailure ==
    /\ cf_pc = "raised" => outfile = None
    /\ outfile # None => (cf_pc = "done" /\ outfile = Some(WrittenFile(final)))
    /\ vc_pc = "raised" => vc_out = None
    /\ vc_out # None => (vc_pc = "done" /\ vc_out # Some(BrokenOutput))

\* An overlay text that is missing, empty or made of spaces only.
Blank(text) == text = None \/ \A i \in DOMAIN TheVal(text) : TheVal(text)[i] = " "

\* C15: when the overlay text of a scene is missing, empty or only
\* whitespace, no text layer is created and the composed scene is exactly
\* the visual with its fitted audio: the duration of the visual, the
\* audio fitted to it, no error.
C15_BlankOverlayIsNoOp ==
    (h_pc = "done" /\ h_op = "overlay" /\ Blank(h_text)) =>
        /\ h_err = "none"
        /\ h_video.layers = <<[src |-> 1, start |-> 0, end |-> h_target, text |-> FALSE]>>
        /\ h_video.duration = h_target
        /\ h_video.end - h_video.start = h_target
        /\ h_video.audio = Some(h_clip)
        /\ Render(h_clip) = Fitted(h_audio, h_target)

C15_Witness ==
    /\ h_pc = "done" /\ h_op = "overlay"
    /\ h_text = Some(<<" ">>)
    /\ Len(h_audio) = 1 /\ h_target = 2
    /\ ~h_video.layers[1].text
    /\ Render(TheVal(h_video.audio)) = h_audio \o <<Silent>>

\* The timing of a written video: its duration, the span of every scene
\* and the length of its audio track.
Timing(file) ==
    [duration |-> file.duration,
     spans |-> [k \in DOMAIN file.layers |-> <<file.layers[k].start, file.layers[k].end>>],
     audio_len |-> Len(file.audio)]

\* C16: a second run of compose_final on the same input writes a video
\* with the total duration and the per-scene start and end of the first:
\* nothing the first run left behind changes the timing.
C16_RerunSameTiming ==
    (cf_run = 2 /\ cf_pc = "done") =>
        /\ first_out # None
        /\ outfile # None
        /\ Timing(TheVal(outfile)) = Timing(TheVal(first_out))

C16_Witness ==
    /\ cf_run = 2 /\ cf_pc = "done"
    /\ Len(scenes) = MaxScenes
    /\ VisualDur(1) # VisualDur(2)
    /\ TheVal(first_out).duration > MaxScenes
    /\ Timing(TheVal(outfile)).spans = Timing(TheVal(first_out)).spans

\* C17: within one run of VideoComposer.compose no two scenes write the
\* same scene file: the paths collected in scene_videos are pairwise
\* different, also when scene records lack a scene_number or repeat one.
C17_ScenePathsUnique ==
    \A i, j \in DOMAIN scene_videos : i # j => scene_videos[i] # scene_videos[j]

\* C19: whenever VideoComposer.compose returns an output path, the final
\* video lasts as long as the concatenated timeline (intro, every scene
\* clip, outro): attaching the narration never shortens it.
C19_AudioNeverShortensVideo ==
    (vc_pc = "done" /\ vc_ret # None) =>
        /\ vc_out # None
        /\ TheVal(vc_out).duration =
               intro_file
                 + SumSeq([k \in DOMAIN scene_videos |-> scene_file[scene_videos[k]]])
                 + outro_file

\* C20: the three lists run hands to compose_final have one length, and
\* at every index the clip file and the audio file carry in their names
\* the scene number of the scene record at that index.
C20_HandedListsParallel ==
    handed # None =>
        LET a == TheVal(handed)
        IN  /\ Len(a.clips) = Len(a.scenes)
            /\ Len(a.audios) = Len(a.scenes)
            /\ \A i \in DOMAIN a.scenes :
                  /\ a.clips[i].ext = "mp4"
                  /\ a.clips[i].num = a.scenes[i].scene
                  /\ a.audios[i].ext = "mp3"
                  /\ a.audios[i].num = a.scenes[i].scene

C20_Witness ==
    /\ r_pc = "done"
    /\ handed # None
    /\ Len(extracted) > 1
    /\ Len(extracted) < n_scenes
    /\ Len(TheVal(handed).scenes) > 1
    /\ Len(TheVal(handed).scenes) < n_scenes
    /\ TheVal(handed).clips[2].num = TheVal(handed).scenes[2].scene

\* C21: ContentExtractor.extract raises ValueError for every path whose
\* suffix is not .pdf (in any case), whether or not a file exists there,
\* and FileNotFoundError for every missing path ending in .pdf; in both
\* cases nothing is read.
C21_ExtractRejectsBeforeReading ==
    (u_pc = "done" /\ u_op = "extract") =>
        /\ u_in.sfx \notin {".pdf", ".PDF"} =>
              (u_out.err = "ValueError" /\ ~u_out.read)
        /\ (u_in.sfx \in {".pdf", ".PDF"} /\ ~u_in.exists) =>
              (u_out.err = "FileNotFoundError" /\ ~u_out.read)

Truncated == u_pc = "done" /\ u_op = "truncate_text"

EndsWithSuffix(text) ==
    /\ Len(text) >= Len(suffix)
    /\ SubSeq(text, Len(text) - Len(suffix) + 1, Len(text)) = suffix

Parsed == u_pc = "done" /\ u_op = "parse_script"

\* C28: for every script returned by generate_script(content, max_duration)
\* and composed by VideoComposer.compose, the total video length (3 s intro
\* + sum of the scene durations + 3 s outro) does not exceed max_duration.
C28_VideoWithinMaxDuration ==
    Parsed => video_length(u_out.ret) <= u_in.max_duration

\* C29: when every scene of the parsed script has a positive integer
\* duration, every scene of the script _parse_script returns has a
\* duration > 0.
C29_NoZeroDurationScene ==
    (Parsed /\ \A i \in DOMAIN u_in.scenes :
                  u_in.scenes[i] # None /\ TheVal(u_in.scenes[i]) > 0) =>
        \A i \in DOMAIN u_out.ret :
            u_out.ret[i] # None /\ TheVal(u_out.ret[i]) > 0

Sanitized == u_pc = "done" /\ u_op = "sanitize_content"

\* C22: for every input text, the result of _sanitize_content contains no
\* case-insensitive match of any blocked pattern, also where removing one
\* match brings the surrounding characters together.
C22_NoBlockedPatternLeft ==
    Sanitized =>
        \A k \in DOMAIN malicious_patterns :
            ~re_search(malicious_patterns[k], u_out.ret)

\* C23: after any sequence of SimpleCache set, get and clear calls, get(k)
\* returns the value of the most recent set(k, v) made after the last
\* clear, and None if there is no such set.
C23_GetReturnsLatestSet ==
    c_got # None => TheVal(c_got).ret = c_expect[TheVal(c_got).key]

\* C25: Narrator.generate_audio never raises because of a TTS or ffmpeg
\* failure and always returns a path; when TTS fails, the path returned
\* refers to a silent audio file that exists.
C25_AudioPathAlwaysUsable ==
    /\ n_err = "none"
    /\ n_pc = "done" =>
          /\ n_ret # None
          /\ n_tts_failed => n_files[TheVal(n_ret)] = Some("silence")

AllFailed(log) == \A i \in DOMAIN log : ~log[i].ok

\* C26: ScriptWriter.generate_script calls the model at most 3 times; it
\* returns the script of the first attempt that succeeds and makes no call
\* after it; if all 3 attempts fail it raises the exception of the third;
\* it never returns None.
C26_AtMostThreeAttempts ==
    /\ Len(sw_log) <= 3
    /\ \A i \in DOMAIN sw_log : sw_log[i].ok => i = Len(sw_log)
    /\ sw_pc = "done" =>
          /\ sw_log # <<>>
          /\ sw_log[Len(sw_log)].ok
          /\ sw_ret = Some(parse_script(sw_log[Len(sw_log)].scenes))
          /\ sw_err = "none"
    /\ sw_pc = "raised" =>
          /\ Len(sw_log) = 3
          /\ AllFailed(sw_log)
          /\ sw_err = sw_log[3].err
          /\ sw_ret = None
    /\ (Len(sw_log) = 3 /\ AllFailed(sw_log)) => sw_pc = "raised"
    /\ (sw_log # <<>> /\ sw_log[Len(sw_log)].ok) => sw_pc = "done"

C26_Witness ==
    /\ sw_pc = "raised"
    /\ Len(sw_log) = 3
    /\ sw_log[1].err # sw_log[3].err
    /\ sw_err = sw_log[3].err

\* C27: after a successful submit the /generate_video handler makes at most
\* 30 status polls and then answers; it answers 504 'Timeout waiting for
\* video' if and only if no poll reported 'completed' or 'failed', 500 when
\* a poll reported 'failed', and the video URL when a poll reported
\* 'completed'.
C27_TimeoutOnlyWithoutVerdict ==
    /\ a_polls <= 30
    /\ a_answer # None =>
          LET code == TheVal(a_answer).code
          IN  /\ code = 504 <=> a_seen \cap {"completed", "failed"} = {}
              /\ "failed" \in a_seen => code = 500
              /\ "completed" \in a_seen =>
                    (code = 200 /\ TheVal(a_answer).body = TheVal(a_video_url))

SceneMakerReturned == r_pc \notin {"idle", "extract", "script", "raised"}

\* C30: for every non-empty list of extracted sentences and every n_scenes
\* >= 1, extractive_scene_maker returns between 1 and n_scenes scenes
\* numbered 1, 2, ..., k in list order, each drawn from the chunk of its
\* number, and the chunks partition the sentence list: every sentence lies
\* in exactly one chunk.
C30_ScenesContiguousChunksPartition ==
    (extracted # <<>> /\ n_scenes >= 1) =>
        LET total == Len(extracted)
            InChunk(j, i) ==
                /\ chunk_first(total, n_scenes, i) <= j
                /\ j <= chunk_last(total, n_scenes, i)
        IN  /\ (r_pc = "raised" /\ r_err = "RuntimeError") => r_scenes # <<>>
            /\ r_err # "ZeroDivisionError"
            /\ SceneMakerReturned =>
                  /\ Len(r_scenes) >= 1
                  /\ Len(r_scenes) <= n_scenes
                  /\ \A k \in DOMAIN r_scenes :
                        /\ r_scenes[k].scene = k
                        /\ InChunk(r_scenes[k].text, k - 1)
                  /\ \A j \in 1..total :
                        Cardinality({i \in 0..(n_scenes - 1) : InChunk(j, i)}) = 1

C30_Witness ==
    /\ r_pc = "visuals"
    /\ Len(extracted) = 3
    /\ n_scenes = 2
    /\ Len(r_scenes) = 2
    /\ r_scenes[2].text = 3

=============================================================================
